---- MODULE Spec2Model ----
(***************************************************************************)
(* Slide-deck assistant: plan generation with fallback (generateSlidePlan, *)
(* createFallbackPlan), per-slide image generation with model fallback     *)
(* (generateFinalSlideImage) and the sequential batch controller of the    *)
(* preview screen (PreviewDownload.startGeneration).                       *)
(*                                                                         *)
(* Strings are sequences of tokens.  A token is a run of characters that   *)
(* the code never looks inside: the triple backtick, the word json, one    *)
(* JSON punctuation mark, one digit, one word.  Substring tests on token   *)
(* sequences agree with the character-level tests of the code because no   *)
(* token of the universe contains part of a searched pattern.              *)
(***************************************************************************)
EXTENDS Integers, Sequences, FiniteSets, TLC

VARIABLES
  pIn,       \* arguments of the generateSlidePlan call
  pPc,       \* "idle" | "await" | "resolved" | "rejected"
  pOutcome,  \* what the provider transport call produced
  pSettled,  \* completion of the promise returned by generateSlidePlan
  pCalls,    \* provider transport calls made by this generateSlidePlan call
  logs,      \* App.logs, the session log
  step,      \* App.step
  props,     \* props of the mounted PreviewDownload: plan, images, provider, ...
  hasApiKey, isGenerating, progressIndex, generatedImages,  \* PreviewDownload state
  keyChecked, \* the mount effect (checkKey) has run
  run,       \* the startGeneration call: position, loop index, results, and
             \* what it has done so far (attempts per slide, notices raised)
  gen,       \* the generateFinalSlideImage call made last: position, slide,
             \* reference images, model calls made, primary error, completion
  alerts,    \* window.alert texts, in order
  appPlan,   \* App.plan
  orphans,   \* startGeneration calls of preview screens that were replaced by
             \* a new one while the call was going on: props, run, gen of each
  sessions,  \* handleStartProcessing calls so far
  exported,  \* the log as downloadLogs wrote it last
  editor     \* SlideEditor: edits made so far, and the handleDrop calls that
             \* await onAddImages, each with the plan of its closure

planVars == <<pIn, pPc, pOutcome, pSettled, pCalls>>
previewVars ==
  <<step, props, hasApiKey, isGenerating, progressIndex, generatedImages, keyChecked,
    run, gen, alerts>>
appVars == <<appPlan, orphans, sessions, exported, editor>>
vars ==
  <<pIn, pPc, pOutcome, pSettled, pCalls, logs, step, props, hasApiKey, isGenerating,
    progressIndex, generatedImages, keyChecked, run, gen, alerts, appPlan, orphans,
    sessions, exported, editor>>

---------------------------------------------------------------------------
(* Bounds of the model.                                                    *)

MaxCount == 3          \* slideCount requested in a generateSlidePlan run
MaxModelSlides == 2    \* slides in a plan written by the model
MaxSlides == 3         \* slides of the plan shown by the preview screen
MaxRuns == 2           \* batch runs started on one preview screen
MaxStudioSlides == 2   \* slides of the plan when the key comes from AI Studio
MaxBatchSlides == 2    \* slides of the plan when startGeneration is called again
MaxSessions == 2       \* handleStartProcessing calls in one life of the App
MaxAppSlides == 2      \* slideCount typed into the upload form
MaxEdits == 2          \* editor operations in one life of the App
MaxParts == 2          \* content parts of an image model's answer

\* the upload form clamps the slide count to 1..MaxSlideCount
MaxSlideCount == 99

---------------------------------------------------------------------------
(* JavaScript strings.                                                     *)

QUOTE == "\""
FENCE == "BACKTICKS3"   \* the run of three backtick characters
TAG == "json"
NL == "\n"
SP == " "

IsWs(c) == c \in {SP, NL}

startsWithAt(s, pat, i) ==
  /\ i + Len(pat) - 1 <= Len(s)
  /\ SubSeq(s, i, i + Len(pat) - 1) = pat

\* String.prototype.includes
includes(s, pat) == \E i \in 1..Len(s) : startsWithAt(s, pat, i)

\* String.prototype.indexOf, 1-based; 0 when absent
indexOf(s, pat) ==
  IF includes(s, pat)
  THEN CHOOSE i \in 1..Len(s) :
         startsWithAt(s, pat, i) /\ \A j \in 1..(i - 1) : ~startsWithAt(s, pat, j)
  ELSE 0

\* String.prototype.split with a non-empty separator
RECURSIVE split(_, _)
split(s, sep) ==
  LET i == indexOf(s, sep)
  IN IF i = 0 THEN <<s>>
     ELSE <<SubSeq(s, 1, i - 1)>> \o split(SubSeq(s, i + Len(sep), Len(s)), sep)

\* String.prototype.trim
RECURSIVE trimStart(_)
trimStart(s) == IF s # <<>> /\ IsWs(Head(s)) THEN trimStart(Tail(s)) ELSE s

RECURSIVE trimEnd(_)
trimEnd(s) ==
  IF s # <<>> /\ IsWs(s[Len(s)]) THEN trimEnd(SubSeq(s, 1, Len(s) - 1)) ELSE s

trim(s) == trimEnd(trimStart(s))

\* Number to decimal string, as a template literal formats it
DigitChars == <<"0", "1", "2", "3", "4", "5", "6", "7", "8", "9">>

RECURSIVE NumberToString(_)
NumberToString(n) ==
  IF n < 10 THEN <<DigitChars[n + 1]>>
  ELSE NumberToString(n \div 10) \o <<DigitChars[(n % 10) + 1]>>

---------------------------------------------------------------------------
(* JavaScript values: a tag t and a payload v.                             *)
(*   str: token sequence      num: digit sequence     arr: sequence        *)
(*   obj: function from property names (strings) to values                 *)

Str(s) == [t |-> "str", v |-> s]
Num(d) == [t |-> "num", v |-> d]
Arr(a) == [t |-> "arr", v |-> a]
Obj(f) == [t |-> "obj", v |-> f]
JNull == [t |-> "null", v |-> <<>>]
Undefined == [t |-> "undefined", v |-> <<>>]

K(name) == <<name>>

IsObject(x) == x.t \in {"obj", "arr"}

\* Truthiness, as `!x` and `if (x)` test it
Truthy(x) ==
  CASE x.t = "str" -> x.v # <<>>
    [] x.t = "num" -> \E i \in 1..Len(x.v) : x.v[i] # "0"
    [] x.t \in {"arr", "obj"} -> TRUE
    [] OTHER -> FALSE

\* Property read o.k on a value that is not null or undefined
Get(o, k) == IF o.t = "obj" /\ k \in DOMAIN o.v THEN o.v[k] ELSE Undefined

\* Property write o.k = x on an object
Put(o, k, x) == Obj((k :> x) @@ o.v)

\* Completion of an evaluation: a value, or a thrown error
Err(name, message) == [name |-> name, message |-> message]
NoError == Err("", <<>>)
Normal(x) == [threw |-> FALSE, val |-> x, err |-> NoError]
Throw(e) == [threw |-> TRUE, val |-> Undefined, err |-> e]

---------------------------------------------------------------------------
(* JSON.parse: a recursive-descent parser over the token sequence.  String *)
(* literals are read up to the next quote: the texts of the universe hold  *)
(* no backslash escapes.                                                   *)

DigitSet == {DigitChars[i] : i \in 1..10}

ParseFail == [ok |-> FALSE, val |-> Undefined, next |-> 0]
ParseOk(x, n) == [ok |-> TRUE, val |-> x, next |-> n]

RECURSIVE skipWs(_, _)
skipWs(s, i) == IF i <= Len(s) /\ IsWs(s[i]) THEN skipWs(s, i + 1) ELSE i

\* index of the first quote at or after i; 0 if the literal is not closed
RECURSIVE closingQuote(_, _)
closingQuote(s, i) ==
  IF i > Len(s) THEN 0
  ELSE IF s[i] = QUOTE THEN i
  ELSE closingQuote(s, i + 1)

\* index of the last digit of the run that starts at i
RECURSIVE digitsEnd(_, _)
digitsEnd(s, i) ==
  IF i + 1 <= Len(s) /\ s[i + 1] \in DigitSet THEN digitsEnd(s, i + 1) ELSE i

RECURSIVE parseValue(_, _)
RECURSIVE parseElements(_, _, _)
RECURSIVE parseMembers(_, _, _)

parseValue(s, i0) ==
  LET i == skipWs(s, i0)
  IN IF i > Len(s) THEN ParseFail
     ELSE CASE s[i] = QUOTE ->
                 LET j == closingQuote(s, i + 1)
                 IN IF j = 0 THEN ParseFail
                    ELSE ParseOk(Str(SubSeq(s, i + 1, j - 1)), j + 1)
            [] s[i] \in DigitSet ->
                 LET j == digitsEnd(s, i)
                 IN ParseOk(Num(SubSeq(s, i, j)), j + 1)
            [] s[i] = "null" -> ParseOk(JNull, i + 1)
            [] s[i] = "[" ->
                 LET j == skipWs(s, i + 1)
                 IN IF j <= Len(s) /\ s[j] = "]" THEN ParseOk(Arr(<<>>), j + 1)
                    ELSE parseElements(s, i + 1, <<>>)
            [] s[i] = "{" ->
                 LET j == skipWs(s, i + 1)
                 IN IF j <= Len(s) /\ s[j] = "}" THEN ParseOk(Obj(<<>>), j + 1)
                    ELSE parseMembers(s, i + 1, <<>>)
            [] OTHER -> ParseFail

parseElements(s, i, acc) ==
  LET r == parseValue(s, i)
      j == skipWs(s, r.next)
  IN IF ~r.ok \/ j > Len(s) THEN ParseFail
     ELSE IF s[j] = "," THEN parseElements(s, j + 1, Append(acc, r.val))
     ELSE IF s[j] = "]" THEN ParseOk(Arr(Append(acc, r.val)), j + 1)
     ELSE ParseFail

parseMembers(s, i, acc) ==
  LET k == skipWs(s, i)
      kr == parseValue(s, k)
      c == skipWs(s, kr.next)
      vr == parseValue(s, c + 1)
      j == skipWs(s, vr.next)
      acc2 == (kr.val.v :> vr.val) @@ acc
  IN IF k > Len(s) \/ s[k] # QUOTE \/ ~kr.ok THEN ParseFail
     ELSE IF c > Len(s) \/ s[c] # ":" THEN ParseFail
     ELSE IF ~vr.ok \/ j > Len(s) THEN ParseFail
     ELSE IF s[j] = "," THEN parseMembers(s, j + 1, acc2)
     ELSE IF s[j] = "}" THEN ParseOk(Obj(acc2), j + 1)
     ELSE ParseFail

JSONparse(s) ==
  LET r == parseValue(s, 1)
  IN IF r.ok /\ skipWs(s, r.next) > Len(s) THEN Normal(r.val)
     ELSE Throw(Err("SyntaxError", <<"Unexpected token">>))

\* JSON.stringify, properties written in the order of KeyOrder: how the
\* model's answers are put on the wire
KeyOrder ==
  <<K("topic"), K("style"), K("requirements"), K("slides"), K("id"), K("title"),
    K("bullets"), K("visualNote"), K("selectedImageIds"), K("error"), K("message")>>

RECURSIVE stringify(_)
RECURSIVE stringifyElements(_)
RECURSIVE stringifyMembers(_, _)

stringify(x) ==
  CASE x.t = "str" -> <<QUOTE>> \o x.v \o <<QUOTE>>
    [] x.t = "num" -> x.v
    [] x.t = "arr" -> <<"[">> \o stringifyElements(x.v) \o <<"]">>
    [] x.t = "obj" -> <<"{">> \o stringifyMembers(x.v, KeyOrder) \o <<"}">>
    [] OTHER -> <<"null">>

stringifyElements(a) ==
  IF Len(a) = 0 THEN <<>>
  ELSE IF Len(a) = 1 THEN stringify(a[1])
  ELSE stringify(a[1]) \o <<",">> \o stringifyElements(Tail(a))

stringifyMembers(f, keys) ==
  IF Len(keys) = 0 THEN <<>>
  ELSE LET k == Head(keys)
           rest == stringifyMembers(f, Tail(keys))
       IN IF k \in DOMAIN f
          THEN <<QUOTE>> \o k \o <<QUOTE, ":">> \o stringify(f[k])
                 \o (IF Len(rest) = 0 THEN <<>> ELSE <<",">> \o rest)
          ELSE rest

---------------------------------------------------------------------------
(* Plan generator: createFallbackPlan.                                     *)

\* Chinese literals of the source, one token each
ZH_TOPIC == "zh:ShengChengDeYanShiWenGao"
ZH_SLIDE == "zh:HuanDengPian"
ZH_FAILED == "zh:NeiRongShengChengShiBai."
ZH_EDIT == "zh:QingShouDongBianJi."

\* mutants of fallbackSlide: one id for every slide; titles counted from 0
fallbackSlideSameId(i, outputLanguage) ==
  Obj(   (K("id") :> Str(<<"slide-">> \o NumberToString(0)))
      @@ (K("title") :>
            Str(<<IF outputLanguage = "zh" THEN ZH_SLIDE ELSE "Slide", SP>>
                  \o NumberToString(i + 1)))
      @@ (K("bullets") :>
            Arr(<<Str(<<IF outputLanguage = "zh" THEN ZH_FAILED
                        ELSE "Content generation failed.">>),
                  Str(<<IF outputLanguage = "zh" THEN ZH_EDIT
                        ELSE "Please edit manually.">>)>>))
      @@ (K("visualNote") :> Str(<<"Placeholder">>))
      @@ (K("selectedImageIds") :> Arr(<<>>)))

fallbackSlideTitleFromZero(i, outputLanguage) ==
  Obj(   (K("id") :> Str(<<"slide-">> \o NumberToString(i)))
      @@ (K("title") :>
            Str(<<IF outputLanguage = "zh" THEN ZH_SLIDE ELSE "Slide", SP>>
                  \o NumberToString(i)))
      @@ (K("bullets") :>
            Arr(<<Str(<<IF outputLanguage = "zh" THEN ZH_FAILED
                        ELSE "Content generation failed.">>),
                  Str(<<IF outputLanguage = "zh" THEN ZH_EDIT
                        ELSE "Please edit manually.">>)>>))
      @@ (K("visualNote") :> Str(<<"Placeholder">>))
      @@ (K("selectedImageIds") :> Arr(<<>>)))

\* the slide built for 0-based index i
fallbackSlide(i, outputLanguage) ==
  Obj(   (K("id") :> Str(<<"slide-">> \o NumberToString(i)))
      @@ (K("title") :>
            Str(<<IF outputLanguage = "zh" THEN ZH_SLIDE ELSE "Slide", SP>>
                  \o NumberToString(i + 1)))
      @@ (K("bullets") :>
            Arr(<<Str(<<IF outputLanguage = "zh" THEN ZH_FAILED
                        ELSE "Content generation failed.">>),
                  Str(<<IF outputLanguage = "zh" THEN ZH_EDIT
                        ELSE "Please edit manually.">>)>>))
      @@ (K("visualNote") :> Str(<<"Placeholder">>))
      @@ (K("selectedImageIds") :> Arr(<<>>)))

createFallbackPlan(slideCount, outputLanguage, styleInput) ==
  Obj(   (K("topic") :>
            Str(<<IF outputLanguage = "zh" THEN ZH_TOPIC ELSE "Generated Presentation">>))
      @@ (K("style") :> Str(styleInput))
      @@ (K("slides") :>
            Arr([i \in 1..slideCount |-> fallbackSlide(i - 1, outputLanguage)])))

---------------------------------------------------------------------------
(* Plan generator: parsing and post-processing of the model's answer.      *)

\* mutant of cleanMarkdown: the content is parsed as it came
cleanMarkdownNoStrip(content) == content

\* "Clean Markdown code blocks"
cleanMarkdown(content) ==
  IF includes(content, <<FENCE, TAG>>)
  THEN trim(split(split(content, <<FENCE, TAG>>)[2], <<FENCE>>)[1])
  ELSE IF includes(content, <<FENCE>>)
  THEN trim(split(split(content, <<FENCE>>)[2], <<FENCE>>)[1])
  ELSE content

\* parsed.style = styleInput; parsed.requirements = requirementsInput.
\* Module code is strict: the write throws on null and on a primitive.  An
\* array takes the two properties as expandos nothing reads back.
injectStyle(parsed, styleInput, requirementsInput) ==
  IF ~IsObject(parsed)
  THEN Throw(Err("TypeError", <<"Cannot create property 'style'">>))
  ELSE IF parsed.t = "arr" THEN Normal(parsed)
  ELSE Normal(Put(Put(parsed, K("style"), Str(styleInput)),
                  K("requirements"), Str(requirementsInput)))

\* mutant of resetSelectedImageIds: the slides are returned as parsed
resetSelectedImageIdsKept(slides) ==
  IF slides.t # "arr"
  THEN Throw(Err("TypeError", <<"parsed.slides.forEach is not a function">>))
  ELSE Normal(slides)

\* mutant of resetSelectedImageIds: a value that is not an array is left alone
resetSelectedImageIdsLoose(slides) ==
  IF slides.t # "arr" THEN Normal(slides) ELSE resetSelectedImageIdsKept(slides)

\* slides.forEach(s => s.selectedImageIds = [])
resetSelectedImageIds(slides) ==
  IF slides.t \in {"undefined", "null"}
  THEN Throw(Err("TypeError", <<"Cannot read properties of undefined">>))
  ELSE IF slides.t # "arr"
  THEN Throw(Err("TypeError", <<"parsed.slides.forEach is not a function">>))
  ELSE IF \E i \in 1..Len(slides.v) : ~IsObject(slides.v[i])
  THEN Throw(Err("TypeError", <<"Cannot set properties of null">>))
  ELSE Normal(Arr([i \in 1..Len(slides.v) |->
                     IF slides.v[i].t = "obj"
                     THEN Put(slides.v[i], K("selectedImageIds"), Arr(<<>>))
                     ELSE slides.v[i]]))

\* if (!parsed.slides) throw new Error("Invalid JSON structure from Zenmux")
requireSlides(parsed) ==
  IF ~Truthy(Get(parsed, K("slides")))
  THEN Throw(Err("Error", <<"Invalid JSON structure from Zenmux">>))
  ELSE Normal(parsed)

\* the slides of parsed replaced by the post-processed ones
withSlides(parsed, r) == IF r.threw THEN r ELSE Normal(Put(parsed, K("slides"), r.val))

\* Gateway: content of the answer to the returned plan
zenmuxParse(content, styleInput, requirementsInput) ==
  LET p == JSONparse(cleanMarkdown(content))
      a == injectStyle(p.val, styleInput, requirementsInput)
      b == requireSlides(a.val)
  IN IF p.threw THEN p
     ELSE IF a.threw THEN a
     ELSE IF b.threw THEN b
     ELSE withSlides(a.val, resetSelectedImageIds(Get(a.val, K("slides"))))

\* Managed SDK: response.text to the returned plan
googleParse(text, styleInput, requirementsInput) ==
  LET p == JSONparse(text)
      a == injectStyle(p.val, styleInput, requirementsInput)
  IN IF p.threw THEN p
     ELSE IF a.threw THEN a
     ELSE withSlides(a.val, resetSelectedImageIds(Get(a.val, K("slides"))))

\* the try block of the Gateway branch, given what fetch and resp.json() gave
zenmuxPlanTry(o, styleInput, requirementsInput) ==
  CASE o.kind = "reject" -> Throw(Err("TypeError", o.text))
    [] o.kind = "badbody" -> Throw(Err("SyntaxError", o.text))
    [] o.kind = "status" ->
         Throw(Err("Error", IF o.text # <<>> THEN o.text ELSE <<"Zenmux API Error">>))
    [] OTHER ->
         IF o.text = <<>> THEN Throw(Err("Error", <<"No content in Zenmux response">>))
         ELSE zenmuxParse(o.text, styleInput, requirementsInput)

\* the try block of the Managed SDK branch, given what generateContent gave
googlePlanTry(o, styleInput, requirementsInput) ==
  CASE o.kind = "reject" -> Throw(Err("Error", o.text))
    [] OTHER ->
         IF o.text # <<>> THEN googleParse(o.text, styleInput, requirementsInput)
         ELSE Throw(Err("Error", <<"Empty response from AI">>))

\* mutant of planCatch: the error is thrown again
planCatchRethrow(c, slideCount, outputLanguage, styleInput) == c

\* the catch blocks: any error becomes the fallback plan
planCatch(c, slideCount, outputLanguage, styleInput) ==
  IF c.threw THEN Normal(createFallbackPlan(slideCount, outputLanguage, styleInput))
  ELSE c

planTry(in, o) ==
  IF in.provider = "zenmux"
  THEN zenmuxPlanTry(o, in.styleInput, in.requirementsInput)
  ELSE googlePlanTry(o, in.styleInput, in.requirementsInput)

\* completion of the promise generateSlidePlan returns
generateSlidePlan(in, o) ==
  planCatch(planTry(in, o), in.slideCount, in.outputLanguage, in.styleInput)

\* mutant of getApiKey: a built-in key stands in for a missing one
getApiKeyDefault(providedKey, envKey) ==
  IF providedKey # "" THEN providedKey ELSE IF envKey = "" THEN "sk-test" ELSE envKey

\* getApiKey(providedKey), envKey being process.env.API_KEY
getApiKey(providedKey, envKey) ==
  IF providedKey # "" THEN providedKey ELSE IF envKey = "" THEN "" ELSE envKey

---------------------------------------------------------------------------
(* The session log.  Timestamps are left out.  apiKeyField is the apiKey   *)
(* property of a logged body ("" when the body has none).                  *)

LogEntry(type, message, headers, apiKeyField) ==
  [type |-> type, message |-> message, headers |-> headers, apiKeyField |-> apiKeyField]

\* String(error)
ErrorToString(e) == <<e.name, ": ">> \o e.message

\* mutant of addLog: the new entry replaces the log
addLogOverwrite(prev, entry) == <<entry>>

\* App.addLog: setLogs(prev => [...prev, entry])
addLog(prev, entry) == Append(prev, entry)

\* addLog called for each of the entries in turn
RECURSIVE addLogs(_, _)
addLogs(prev, entries) ==
  IF Len(entries) = 0 THEN prev
  ELSE addLogs(addLog(prev, Head(entries)), Tail(entries))

\* entries generateSlidePlan appends before the transport call
planRequestLog(in) ==
  IF in.provider = "zenmux"
  THEN <<LogEntry("request", <<>>, {"Content-Type"}, "")>>
  ELSE <<LogEntry("request", <<"Calling Google Gemini 2.5 Flash via SDK">>, {}, "")>>

\* entries generateSlidePlan appends once the transport call has settled
planSettleLog(in, o) ==
  LET c == planTry(in, o)
      response ==
        IF in.provider = "zenmux"
        THEN IF o.kind \in {"status", "ok"}
             THEN <<LogEntry("response", <<>>, {}, "")>> ELSE <<>>
        ELSE IF o.kind = "ok"
             THEN <<LogEntry("response", <<"Google SDK Response received">>, {}, "")>>
             ELSE <<>>
      error == IF c.threw THEN <<LogEntry("error", ErrorToString(c.err), {}, "")>>
               ELSE <<>>
  IN response \o error

---------------------------------------------------------------------------
(* What the plan model may answer.                                         *)

ModelSlide(n, withImages) ==
  LET base == (K("id") :> Str(<<"slide-", n>>))
           @@ (K("title") :> Str(<<"Title", SP, n>>))
           @@ (K("bullets") :> Arr(<<Str(<<"point">>)>>))
           @@ (K("visualNote") :> Str(<<"chart">>))
  IN IF withImages
     THEN Obj(base @@ (K("selectedImageIds") :> Arr(<<Str(<<"img1">>)>>)))
     ELSE Obj(base)

SlideChoices == {ModelSlide("1", FALSE), ModelSlide("2", TRUE)}

\* topics: plain, holding a tagged fence, holding an untagged fence
Topics ==
  { <<"Deck">>,
    <<"see", SP, FENCE, TAG, "{", "}", FENCE>>,
    <<"run", SP, FENCE, "5", FENCE>> }

SlideSeqs == UNION {[1..n -> SlideChoices] : n \in 0..MaxModelSlides}

ModelPlans ==
  {Obj((K("topic") :> Str(tp)) @@ (K("slides") :> Arr(sl))) : tp \in Topics, sl \in SlideSeqs}

\* JSON that is not a plan
OddDocs ==
  { Obj(K("topic") :> Str(<<"Deck">>)),
    Obj((K("topic") :> Str(<<"Deck">>)) @@ (K("slides") :> JNull)),
    Obj((K("topic") :> Str(<<"Deck">>)) @@ (K("slides") :> Str(<<"none">>))),
    Obj((K("topic") :> Str(<<"Deck">>)) @@ (K("slides") :> Arr(<<JNull>>))),
    Obj((K("topic") :> Str(<<"Deck">>))
        @@ (K("slides") :> Obj(K("title") :> Str(<<"Only">>)))),
    Num(<<"5">>), JNull, Arr(<<>>), Str(<<"hi">>) }

JsonTexts == {stringify(d) : d \in ModelPlans \cup OddDocs}

NonJsonTexts == {<<"Sorry,", SP, "I", SP, "cannot">>, <<"{", QUOTE, "topic">>}

WrapForms == {"none", "json", "plain", "prose"}

\* the text J as the model may send it: bare, in a tagged fence, in an
\* untagged fence, in a tagged fence with prose around it
Wrap(J, form) ==
  CASE form = "json" -> <<FENCE, TAG, NL>> \o J \o <<NL, FENCE>>
    [] form = "plain" -> <<FENCE, NL>> \o J \o <<NL, FENCE>>
    [] form = "prose" ->
         <<"Here", SP, "it", SP, "is:", NL, FENCE, TAG, NL>> \o J \o <<NL, FENCE, NL, "Done.">>
    [] OTHER -> J

Outcome(kind, text) == [kind |-> kind, text |-> text]
NoOutcome == Outcome("none", <<>>)

AnswerTexts(forms) == {Wrap(J, f) : J \in JsonTexts \cup NonJsonTexts, f \in forms}

\* Gateway: fetch rejects; resp.json() rejects; a non-OK status with or
\* without data.error.message; an OK answer whose content is missing or
\* empty (text <<>>) or is some text
ZenmuxPlanOutcomes ==
  { Outcome("reject", <<"Failed to fetch">>),
    Outcome("badbody", <<"Unexpected token '<'">>),
    Outcome("status", <<>>),
    Outcome("status", <<"Internal Server Error">>),
    Outcome("ok", <<>>) }
  \cup {Outcome("ok", x) : x \in AnswerTexts(WrapForms)}

\* Managed SDK: generateContent rejects, or resolves with response.text
\* missing or empty (text <<>>) or some text.  Without any key the SDK
\* throws when the call is made.
GooglePlanOutcomes(key) ==
  IF key = "" THEN {Outcome("reject", <<"API key is missing">>)}
  ELSE { Outcome("reject", <<"503 Service Unavailable">>), Outcome("ok", <<>>) }
       \cup {Outcome("ok", x) : x \in AnswerTexts({"none", "json"})}

PlanOutcomes(in) ==
  IF in.provider = "zenmux" THEN ZenmuxPlanOutcomes
  ELSE GooglePlanOutcomes(getApiKey(in.apiKey, in.envKey))

Languages == {"en", "zh"}
Providers == {"google", "zenmux"}
Styles == {<<>>, <<"Retro">>}
ApiKeys == {"", "sk-test"}

PlanInputs(maxCount) ==
  [ slideCount : 1..maxCount, outputLanguage : Languages, styleInput : Styles,
    requirementsInput : {<<"brief">>}, provider : Providers, apiKey : ApiKeys,
    envKey : {"", "env-key"} ]

\* before the preview screen is mounted: step PROCESSING, no PreviewDownload
NoRun == [pc |-> "idle", i |-> 0, results |-> <<>>, permissionErrorOccurred |-> FALSE,
          attempts |-> <<>>, errors |-> <<>>, notices |-> 0, n |-> 0,
          start |-> <<>>, settled |-> <<>>]
\* no answer of an image model (yet)
NoAnswer == [kind |-> "none", text |-> <<>>, resp |-> [imageBase64 |-> "", parts |-> <<>>]]
NoGen == [pc |-> "idle", slide |-> 0, refs |-> <<>>, primaryCalls |-> 0,
          secondaryCalls |-> 0, primaryErr |-> NoError, settled |-> Normal(Undefined),
          primary |-> NoAnswer, secondary |-> NoAnswer]
NoEditor == [edits |-> 0, drops |-> <<>>]
NoPreview ==
  /\ step = "PROCESSING"
  /\ props = <<>>
  /\ hasApiKey = FALSE
  /\ isGenerating = FALSE
  /\ progressIndex = 0
  /\ generatedImages = <<>>
  /\ keyChecked = FALSE
  /\ run = NoRun
  /\ gen = NoGen
  /\ alerts = <<>>

---------------------------------------------------------------------------
(* generateSlidePlan as the App runs it (handleStartProcessing): the call  *)
(* up to its await, then the rest once the transport call has settled.     *)

PlanInit ==
  /\ pIn \in {in \in PlanInputs(MaxCount) : in.provider = "google" \/ in.envKey = ""}
  /\ pPc = "idle"
  /\ pOutcome = NoOutcome
  /\ pSettled = Normal(Undefined)
  /\ pCalls = 0
  /\ logs = <<>>
  /\ NoPreview
  /\ appPlan = JNull
  /\ orphans = <<>>
  /\ sessions = 0
  /\ exported = <<>>
  /\ editor = NoEditor

PlanCall ==
  /\ pPc = "idle"
  /\ pPc' = "await"
  /\ pCalls' = pCalls + 1
  /\ logs' = addLogs(logs, planRequestLog(pIn))
  /\ UNCHANGED <<pIn, pOutcome, pSettled>>
  /\ UNCHANGED previewVars
  /\ UNCHANGED appVars

\* mutant of planRetry: a failed first call is made a second time
planRetryOnce(c, calls) == c.threw /\ calls = 1

\* whether the transport is called again after the try block completed with
\* c: the call is not in a loop and both catch blocks return
planRetry(c, calls) == FALSE

PlanSettle ==
  /\ pPc = "await"
  /\ \E o \in PlanOutcomes(pIn) :
       LET c == generateSlidePlan(pIn, o)
       IN IF planRetry(planTry(pIn, o), pCalls)
          THEN /\ pCalls' = pCalls + 1
               /\ logs' = addLogs(logs, planSettleLog(pIn, o))
               /\ UNCHANGED <<pPc, pOutcome, pSettled>>
          ELSE /\ pOutcome' = o
               /\ pSettled' = c
               /\ pPc' = IF c.threw THEN "rejected" ELSE "resolved"
               /\ logs' = addLogs(logs, planSettleLog(pIn, o))
               /\ UNCHANGED pCalls
  /\ UNCHANGED pIn
  /\ UNCHANGED previewVars
  /\ UNCHANGED appVars

PlanNext == PlanCall \/ PlanSettle

SpecPlan == PlanInit /\ [][PlanNext]_vars

---------------------------------------------------------------------------
(* createFallbackPlan on its own, for every slide count the upload form    *)
(* lets through.                                                           *)

FallbackInit ==
  /\ pIn \in {in \in PlanInputs(MaxSlideCount) :
                in.provider = "zenmux" /\ in.apiKey = "" /\ in.envKey = ""}
  /\ pPc = "idle"
  /\ pOutcome = NoOutcome
  /\ pSettled = Normal(Undefined)
  /\ pCalls = 0
  /\ logs = <<>>
  /\ NoPreview
  /\ appPlan = JNull
  /\ orphans = <<>>
  /\ sessions = 0
  /\ exported = <<>>
  /\ editor = NoEditor

FallbackApply ==
  /\ pPc = "idle"
  /\ pPc' = "resolved"
  /\ pSettled' = Normal(createFallbackPlan(pIn.slideCount, pIn.outputLanguage, pIn.styleInput))
  /\ UNCHANGED <<pIn, pOutcome, pCalls, logs>>
  /\ UNCHANGED previewVars
  /\ UNCHANGED appVars

FallbackNext == FallbackApply

SpecFallback == FallbackInit /\ [][FallbackNext]_vars

---------------------------------------------------------------------------
(* Slide image generator: generateFinalSlideImage.                         *)

\* error messages a provider may send; the markers the code searches for
\* are tokens of their own
M403 == <<"403", SP, "Forbidden">>
MPermission == <<"The caller does not have", SP, "permission">>
MNotFound == <<"model", SP, "not found">>
MQuota == <<"quota", SP, "exceeded">>
MNetwork == <<"network", SP, "error">>
MUpperCase == <<"PERMISSION_DENIED:", SP, "Quota", SP, "Not Found">>

\* error?.message || error?.toString() || ""
errorMsgOf(e) == IF e.message # <<>> THEN e.message ELSE <<e.name>>

\* the marker test of the Managed SDK catch block
fallbackEligible(errorMsg) ==
  \/ includes(errorMsg, <<"permission">>)
  \/ includes(errorMsg, <<"403">>)
  \/ includes(errorMsg, <<"not found">>)

\* a response body: imageBase64 ("" when absent) and the parts of
\* candidates[0].content; a part has inlineData or not, data "" when absent
Part(inline, data) == [inline |-> inline, data |-> data]
ImageResponse(imageBase64, parts) == [imageBase64 |-> imageBase64, parts |-> parts]
NoResponse == ImageResponse("", <<>>)

DataUri(b64) == <<"data:image/png;base64,", b64>>

Extracted(found, uri) == [found |-> found, uri |-> uri]

\* mutant of extractZenmux: the nested parts are looked at first
extractZenmuxNestedFirst(data) ==
  LET withData == {j \in 1..Len(data.parts) : data.parts[j].inline /\ data.parts[j].data # ""}
      first == CHOOSE j \in withData : \A m \in withData : j <= m
  IN IF withData # {} THEN Extracted(TRUE, DataUri(data.parts[first].data))
     ELSE IF data.imageBase64 # "" THEN Extracted(TRUE, DataUri(data.imageBase64))
     ELSE Extracted(FALSE, <<>>)

\* Gateway: imageBase64, else parts[0].inlineData.data, else the first part
\* with inlineData.data
extractZenmux(data) ==
  LET withData == {j \in 1..Len(data.parts) : data.parts[j].inline /\ data.parts[j].data # ""}
      first == CHOOSE j \in withData : \A m \in withData : j <= m
  IN IF data.imageBase64 # "" THEN Extracted(TRUE, DataUri(data.imageBase64))
     ELSE IF withData # {} THEN Extracted(TRUE, DataUri(data.parts[first].data))
     ELSE Extracted(FALSE, <<>>)

\* Managed SDK: the first part with inlineData
extractGoogle(response) ==
  LET inl == {j \in 1..Len(response.parts) : response.parts[j].inline}
      first == CHOOSE j \in inl : \A m \in inl : j <= m
  IN IF inl # {}
     THEN Extracted(TRUE, DataUri(IF response.parts[first].data = "" THEN "undefined"
                                  ELSE response.parts[first].data))
     ELSE Extracted(FALSE, <<>>)

ImageOutcome(kind, text, resp) == [kind |-> kind, text |-> text, resp |-> resp]

\* the try block of the Gateway branch, given what fetch and resp.json() gave
zenmuxImageTry(o) ==
  CASE o.kind = "reject" -> Throw(Err("TypeError", o.text))
    [] o.kind = "badbody" -> Throw(Err("SyntaxError", o.text))
    [] o.kind = "status" ->
         Throw(Err("Error", IF o.text # <<>> THEN o.text ELSE <<"Zenmux Image API Error">>))
    [] OTHER ->
         IF extractZenmux(o.resp).found THEN Normal(extractZenmux(o.resp).uri)
         ELSE Throw(Err("Error", <<"No image data found in Zenmux response">>))

\* the try block of the Managed SDK branch, given what the primary model gave
googleImageTry(o) ==
  CASE o.kind = "reject" -> Throw(Err("Error", o.text))
    [] OTHER ->
         IF extractGoogle(o.resp).found THEN Normal(extractGoogle(o.resp).uri)
         ELSE Throw(Err("Error", <<"No image data found in response">>))

imagePrimaryTry(provider, o) ==
  IF provider = "zenmux" THEN zenmuxImageTry(o) ELSE googleImageTry(o)

\* mutant of attemptsFallback: the secondary model is tried after any error
attemptsFallbackAlways(provider, c) == provider = "google" /\ c.threw

\* whether the catch block goes on to the secondary model: only the Managed
\* SDK branch has one, and only for an error with a marker
attemptsFallback(provider, c) ==
  provider = "google" /\ c.threw /\ fallbackEligible(errorMsgOf(c.err))

\* "throw e" / "throw error": the primary completion is the call's completion
imageRethrow(c) == c

\* mutant of googleFallback: an answer of the secondary model without an
\* image is an error of its own
googleFallbackNoImageError(o, primaryErr) ==
  IF o.kind = "reject" THEN Throw(Err("Error", o.text))
  ELSE googleImageTry(o)

\* mutant of googleFallback: the secondary model's error is wrapped in a new one
googleFallbackWrapped(o, primaryErr) ==
  IF o.kind = "reject" THEN Throw(Err("Error", <<"Fallback failed:", SP>> \o o.text))
  ELSE IF extractGoogle(o.resp).found THEN Normal(extractGoogle(o.resp).uri)
  ELSE Throw(primaryErr)

\* the fallback block, given what the secondary model gave: its error is
\* thrown, its image returned; with no image part the original error is thrown
googleFallback(o, primaryErr) ==
  IF o.kind = "reject" THEN Throw(Err("Error", o.text))
  ELSE IF extractGoogle(o.resp).found THEN Normal(extractGoogle(o.resp).uri)
  ELSE Throw(primaryErr)

\* mutant of loggedApiKey: the payload is logged as it is
loggedApiKeyRaw(apiKey) == apiKey

\* the apiKey property of the logged body: { ...payload, apiKey: '***' }
loggedApiKey(apiKey) == "***"

\* log entries
imageRequestLog(provider, apiKey) ==
  IF provider = "zenmux"
  THEN <<LogEntry("request", <<>>, {"Content-Type"}, loggedApiKey(apiKey))>>
  ELSE <<LogEntry("request", <<"Calling Google Gemini 3 Pro">>, {}, "")>>

imagePrimaryLog(provider, o, c) ==
  IF provider = "zenmux"
  THEN (IF o.kind \in {"status", "ok"} THEN <<LogEntry("response", <<>>, {}, "")>> ELSE <<>>)
       \o (IF c.threw THEN <<LogEntry("error", ErrorToString(c.err), {}, "")>> ELSE <<>>)
  ELSE (IF o.kind = "ok"
        THEN <<LogEntry("response", <<"Google Gemini 3 Pro Success">>, {}, "")>> ELSE <<>>)
       \o (IF c.threw
           THEN <<LogEntry("error", <<"Primary model failed:", SP>> \o ErrorToString(c.err),
                           {}, "")>>
           ELSE <<>>)

imageFallbackLog(o) ==
  IF o.kind = "reject"
  THEN <<LogEntry("error", <<"Fallback failed:", SP>> \o ErrorToString(Err("Error", o.text)),
                  {}, "")>>
  ELSE <<>>

\* what the image models may answer
RespImage == ImageResponse("", <<Part(FALSE, ""), Part(TRUE, "AAAA")>>)
RespImage2 == ImageResponse("", <<Part(TRUE, "BBBB")>>)
RespText == ImageResponse("", <<Part(FALSE, "")>>)
\* an inlineData part that carries no data
RespNoData == ImageResponse("", <<Part(TRUE, "")>>)

ZenmuxImageOutcomes ==
  { ImageOutcome("reject", MNetwork, NoResponse),
    ImageOutcome("status", <<>>, NoResponse),
    ImageOutcome("ok", <<>>, RespImage),
    ImageOutcome("ok", <<>>, RespText) }
  \cup {ImageOutcome("status", m, NoResponse) :
          m \in {M403, MPermission, MQuota, MUpperCase}}

GooglePrimaryOutcomes(key) ==
  IF key = ""
  THEN { ImageOutcome("reject", <<"API key is missing">>, NoResponse),
         ImageOutcome("reject", M403, NoResponse) }
  ELSE { ImageOutcome("ok", <<>>, RespImage), ImageOutcome("ok", <<>>, RespText),
         ImageOutcome("ok", <<>>, RespNoData) }
       \cup {ImageOutcome("reject", m, NoResponse) :
               m \in {M403, MPermission, MNotFound, MQuota, MNetwork, MUpperCase}}

GoogleSecondaryOutcomes(key) ==
  IF key = "" THEN {ImageOutcome("reject", M403, NoResponse)}
  ELSE { ImageOutcome("ok", <<>>, RespImage2), ImageOutcome("ok", <<>>, RespText),
         ImageOutcome("reject", M403, NoResponse) }

ImagePrimaryOutcomes(provider, key) ==
  IF provider = "zenmux" THEN ZenmuxImageOutcomes ELSE GooglePrimaryOutcomes(key)

---------------------------------------------------------------------------
(* The preview screen: PreviewDownload and its batch run.                  *)

\* uploaded images of the session: one with its data URL, one whose data
\* URL is missing
Asset(id, dataUrl) == [id |-> id, dataUrl |-> dataUrl]
SessionImages ==
  << Asset(<<"img1">>, "data:image/jpeg;base64,R0lG"), Asset(<<"img2">>, ""),
     Asset(<<"img3">>, "data:image/png;base64,iVBO") >>

\* what the editor left in selectedImageIds of slide k: the first slide
\* names the three images, not in upload order, and an id no image has, the
\* second one image, the third only ids that resolve to nothing
EditedIds(k) ==
  IF k = 1 THEN <<Str(<<"img3">>), Str(<<"ghost">>), Str(<<"img2">>), Str(<<"img1">>)>>
  ELSE IF k = 2 THEN <<Str(<<"img1">>)>>
  ELSE IF k = 3 THEN <<Str(<<"ghost">>), Str(<<"img2">>)>>
  ELSE <<>>

EditedPlan(n, outputLanguage, styleInput) ==
  LET plan == createFallbackPlan(n, outputLanguage, styleInput)
      slides == Get(plan, K("slides")).v
  IN Put(plan, K("slides"),
         Arr([k \in 1..n |-> Put(slides[k], K("selectedImageIds"), Arr(EditedIds(k)))]))

\* window.aistudio only matters to the Managed SDK provider; the environment
\* key only when no key was typed
PreviewProps ==
  { p \in [ plan : {EditedPlan(n, "en", <<"Retro">>) : n \in 1..MaxSlides},
            images : {SessionImages}, uiLanguage : {"en"}, provider : Providers,
            apiKey : ApiKeys, envKey : {"", "env-key"}, aistudio : BOOLEAN ] :
      /\ p.provider = "zenmux" => ~p.aistudio /\ p.envKey = ""
      /\ p.apiKey # "" => ~p.aistudio /\ p.envKey = ""
      /\ p.envKey # "" => p.aistudio
      /\ p.aistudio => Len(Get(p.plan, K("slides")).v) <= MaxStudioSlides }

planSlides(plan) == Get(plan, K("slides")).v

Mounted == step = "PREVIEW"

\* mutant of SetState: the setter leaves the value as it is
SetStateDropped(cur, new) == cur

\* a state setter of PreviewDownload: ignored once the component is unmounted
SetState(cur, new) == IF Mounted THEN new ELSE cur

\* mutant of collectDataUrls: the data URLs in the order of the uploads
collectDataUrlsByAsset(ids, images) ==
  LET Sel(a) == a.dataUrl # "" /\ \E i \in 1..Len(ids) : ids[i].v = a.id
      s == SelectSeq(images, Sel)
  IN [n \in 1..Len(s) |-> s[n].dataUrl]

\* lines 80-89: the data URLs of the selected images that exist and have one
RECURSIVE collectDataUrls(_, _)
collectDataUrls(ids, images) ==
  IF Len(ids) = 0 THEN <<>>
  ELSE LET found == {j \in 1..Len(images) : images[j].id = Head(ids).v}
           first == CHOOSE j \in found : \A m \in found : j <= m
       IN (IF found # {} /\ images[first].dataUrl # "" THEN <<images[first].dataUrl>>
           ELSE <<>>)
          \o collectDataUrls(Tail(ids), images)

resolveImages(slide, images) ==
  LET ids == Get(slide, K("selectedImageIds"))
  IN IF ids.t = "arr" THEN collectDataUrls(ids.v, images) ELSE <<>>

\* mutant of nextUnrendered: the loop ends once the screen is unmounted
nextUnrenderedWhileMounted(results, from) ==
  LET open == {k \in from..Len(results) : results[k] = <<>>}
  IN IF open = {} \/ ~Mounted THEN 0 ELSE CHOOSE k \in open : \A m \in open : k <= m

\* mutant of nextUnrendered: a slide that has an image is not skipped
nextUnrenderedNoSkip(results, from) == IF from <= Len(results) THEN from ELSE 0

\* the loop of startGeneration from index "from" (1-based): the first slide
\* without an image, 0 when there is none
nextUnrendered(results, from) ==
  LET open == {k \in from..Len(results) : results[k] = <<>>}
  IN IF open = {} THEN 0 ELSE CHOOSE k \in open : \A m \in open : k <= m

GenStart(k, refs) ==
  [pc |-> "primary", slide |-> k, refs |-> refs, primaryCalls |-> 1, secondaryCalls |-> 0,
   primaryErr |-> NoError, settled |-> Normal(Undefined),
   primary |-> NoAnswer, secondary |-> NoAnswer]

GenSettled(g, c) ==
  [g EXCEPT !.pc = IF c.threw THEN "rejected" ELSE "resolved", !.settled = c]

\* getApiKey as generateFinalSlideImage calls it
effectiveKey(p) == getApiKey(p.apiKey, p.envKey)

\* mutant of propsAfterRunStep: the ids of a slide are consumed as they are
\* resolved
propsIdsConsumed(p) ==
  [p EXCEPT !.plan = Put(@, K("slides"),
                         Arr([k \in 1..Len(planSlides(@)) |->
                                Put(planSlides(@)[k], K("selectedImageIds"), Arr(<<>>))]))]

\* plan and images after a step of startGeneration and of the render call it
\* awaits: both only read them (plan.slides[i], images.find, slide.title,
\* slide.bullets.join, slide.visualNote)
propsAfterRunStep(p) == p

\* startGeneration from loop index "from" up to its next await, or to its
\* end; r, lg, g, gening, prog are the run, the log, the generator call and
\* the state values as the handler has left them so far
Proceed(r, results, from, lg, g, gening, prog) ==
  LET k == nextUnrendered(results, from)
      slide == planSlides(props.plan)[k]
  IN IF k = 0
     THEN /\ run' = [r EXCEPT !.pc = "completed", !.results = results]
          /\ gen' = g
          /\ logs' = lg
          /\ isGenerating' = SetState(gening, FALSE)
          /\ progressIndex' = prog
     ELSE /\ run' = [r EXCEPT !.pc = "await", !.i = k - 1, !.results = results,
                              !.attempts[k] = @ + 1]
          /\ gen' = GenStart(k, resolveImages(slide, props.images))
          /\ logs' = addLogs(lg, imageRequestLog(props.provider, props.apiKey))
          /\ isGenerating' = gening
          /\ progressIndex' = SetState(prog, k)

\* mutant of isAbortError: a quota error is not an abort error
isAbortErrorNoQuota(errorMsg) ==
  \/ includes(errorMsg, <<"permission">>)
  \/ includes(errorMsg, <<"403">>)
  \/ includes(errorMsg, <<"The caller does not have", SP, "permission">>)

\* mutant of isAbortError: "Quota" counts as "quota"
isAbortErrorIgnoreCase(errorMsg) ==
  \/ includes(errorMsg, <<"permission">>)
  \/ includes(errorMsg, <<"403">>)
  \/ includes(errorMsg, <<"The caller does not have", SP, "permission">>)
  \/ includes(errorMsg, <<"quota">>)
  \/ includes(errorMsg, <<"Quota">>)

\* mutant of isAbortError: every error is an abort error
isAbortErrorAny(errorMsg) == TRUE

\* lines 114-119
isAbortError(errorMsg) ==
  \/ includes(errorMsg, <<"permission">>)
  \/ includes(errorMsg, <<"403">>)
  \/ includes(errorMsg, <<"The caller does not have", SP, "permission">>)
  \/ includes(errorMsg, <<"quota">>)

PermissionNotice(uiLanguage) ==
  IF uiLanguage = "zh" THEN "ZH_PERMISSION_OR_QUOTA"
  ELSE "Permission denied or quota exceeded."

slideErrorLog(k, e) ==
  <<LogEntry("error",
             <<"Error generating slide", SP>> \o NumberToString(k) \o <<":", SP>> \o e.message,
             {}, "")>>

\* mutant of Resume: the run also aborts when the call resolved after a
\* primary error with an abort marker
ResumeAbortsOnPrimaryError(c, lg, g) ==
  LET k == run.i + 1
      results == [run.results EXCEPT ![k] = c.val]
  IN IF ~c.threw /\ ~isAbortError(errorMsgOf(g.primaryErr))
     THEN /\ generatedImages' = SetState(generatedImages, results)
          /\ Proceed([run EXCEPT !.settled[k] = c], results, k + 1, lg, g, isGenerating,
                     progressIndex)
          /\ UNCHANGED <<hasApiKey, alerts>>
     ELSE /\ run' = [run EXCEPT !.settled[k] = c, !.pc = "aborted",
                                !.permissionErrorOccurred = TRUE, !.notices = @ + 1]
          /\ gen' = g
          /\ logs' = lg
          /\ isGenerating' = SetState(isGenerating, FALSE)
          /\ hasApiKey' = SetState(hasApiKey, FALSE)
          /\ alerts' = Append(alerts, PermissionNotice(props.uiLanguage))
          /\ UNCHANGED <<progressIndex, generatedImages>>

\* startGeneration after generateFinalSlideImage has settled with c
Resume(c, lg, g) ==
  LET k == run.i + 1
      results == [run.results EXCEPT ![k] = c.val]
      failed == [run EXCEPT !.errors[k] = errorMsgOf(c.err), !.settled[k] = c]
  IN IF ~c.threw
     THEN /\ generatedImages' = SetState(generatedImages, results)
          /\ Proceed([run EXCEPT !.settled[k] = c], results, k + 1, lg, g, isGenerating,
                     progressIndex)
          /\ UNCHANGED <<hasApiKey, alerts>>
     ELSE IF isAbortError(errorMsgOf(c.err))
     THEN /\ run' = [failed EXCEPT !.pc = "aborted", !.permissionErrorOccurred = TRUE,
                                   !.notices = @ + 1]
          /\ gen' = g
          /\ logs' = addLogs(lg, slideErrorLog(k, c.err))
          /\ isGenerating' = SetState(isGenerating, FALSE)
          /\ hasApiKey' = SetState(hasApiKey, FALSE)
          /\ alerts' = Append(alerts, PermissionNotice(props.uiLanguage))
          /\ UNCHANGED <<progressIndex, generatedImages>>
     ELSE /\ Proceed(failed, run.results, k + 1, addLogs(lg, slideErrorLog(k, c.err)), g,
                     isGenerating, progressIndex)
          /\ UNCHANGED <<hasApiKey, alerts, generatedImages>>

\* the preview screen right after the editor's "Generate": the plan came
\* from a failed plan call, so the log holds that call's entries
PreviewInit ==
  /\ props \in PreviewProps
  /\ step = "PREVIEW"
  /\ pIn = [ slideCount |-> Len(planSlides(props.plan)), outputLanguage |-> "en",
             styleInput |-> <<"Retro">>, requirementsInput |-> <<"brief">>,
             provider |-> props.provider, apiKey |-> props.apiKey, envKey |-> props.envKey ]
  /\ pPc = "resolved"
  /\ pOutcome = Outcome("reject", <<"Failed to fetch">>)
  /\ pSettled = Normal(createFallbackPlan(pIn.slideCount, "en", <<"Retro">>))
  /\ pCalls = 1
  /\ logs = addLogs(addLogs(<<>>, planRequestLog(pIn)), planSettleLog(pIn, pOutcome))
  /\ hasApiKey = FALSE
  /\ isGenerating = FALSE
  /\ progressIndex = 0
  /\ generatedImages = [k \in 1..Len(planSlides(props.plan)) |-> <<>>]
  /\ keyChecked = FALSE
  /\ run = NoRun
  /\ gen = NoGen
  /\ alerts = <<>>
  /\ appPlan = props.plan
  /\ orphans = <<>>
  /\ sessions = 1
  /\ exported = <<>>
  /\ editor = NoEditor

\* mutant of onRestart: the plan is left in place
onRestartKeepsPlan ==
  /\ appPlan' = appPlan
  /\ step' = "UPLOAD"
  /\ hasApiKey' = FALSE
  /\ isGenerating' = FALSE
  /\ progressIndex' = 0
  /\ generatedImages' = <<>>
  /\ keyChecked' = FALSE

\* onRestart (App): the plan is cleared and the App goes back to the upload
\* step, which unmounts the preview screen and discards its state
onRestart ==
  /\ appPlan' = JNull
  /\ step' = "UPLOAD"
  /\ hasApiKey' = FALSE
  /\ isGenerating' = FALSE
  /\ progressIndex' = 0
  /\ generatedImages' = <<>>
  /\ keyChecked' = FALSE

\* the mount effect, lines 29-46
CheckKey ==
  /\ Mounted
  /\ ~keyChecked
  /\ keyChecked' = TRUE
  /\ \E hasKey \in BOOLEAN :
       hasApiKey' = IF props.apiKey # "" THEN TRUE
                    ELSE IF props.provider = "google" /\ props.aistudio THEN hasKey
                    ELSE IF props.provider = "google" THEN TRUE
                    ELSE hasApiKey
  /\ UNCHANGED <<step, props, isGenerating, progressIndex, generatedImages, run, gen,
                 alerts, logs>>
  /\ UNCHANGED planVars
  /\ UNCHANGED appVars

\* the "Configure Key" button, lines 48-61; openSelectKey resolves or rejects
HandleSelectKey ==
  /\ Mounted
  /\ ~hasApiKey
  /\ IF props.provider = "google" /\ props.aistudio
     THEN /\ \E resolved \in BOOLEAN : hasApiKey' = resolved
          /\ UNCHANGED <<step, alerts, appPlan, isGenerating, progressIndex, generatedImages,
                         keyChecked>>
     ELSE /\ alerts' = Append(alerts, "Please enter API Key in the upload step.")
          /\ onRestart
  /\ UNCHANGED <<props, run, gen, logs, orphans, sessions, exported, editor>>
  /\ UNCHANGED planVars

\* startGeneration called, up to its first await; without a key it returns
\* at once
startGenerationCall ==
  /\ run.n < MaxRuns
  /\ IF ~hasApiKey
     THEN UNCHANGED <<run, gen, logs, isGenerating, progressIndex>>
     ELSE Proceed([pc |-> "await", i |-> 0, results |-> generatedImages,
                   permissionErrorOccurred |-> FALSE,
                   attempts |-> [k \in 1..Len(generatedImages) |-> 0],
                   errors |-> [k \in 1..Len(generatedImages) |-> <<>>], notices |-> 0,
                   n |-> run.n + 1, start |-> generatedImages,
                   settled |-> [k \in 1..Len(generatedImages) |-> Throw(NoError)]],
                  generatedImages, 1, logs, gen, TRUE, 0)
  /\ props' = propsAfterRunStep(props)
  /\ UNCHANGED <<step, hasApiKey, generatedImages, keyChecked, alerts>>
  /\ UNCHANGED planVars
  /\ UNCHANGED appVars

\* the "Start Design Generation" button is rendered when a key is there, no
\* run is going on and no slide has an image (lines 180, 200)
StartButtonShown ==
  /\ Mounted
  /\ hasApiKey
  /\ ~isGenerating
  /\ \A k \in 1..Len(generatedImages) : generatedImages[k] = <<>>

\* a click on the button
StartGeneration ==
  /\ StartButtonShown
  /\ startGenerationCall

\* the primary model call settles: generateFinalSlideImage goes on to the
\* secondary model, or settles and startGeneration resumes
PrimarySettle ==
  /\ gen.pc = "primary"
  /\ \E o \in ImagePrimaryOutcomes(props.provider, effectiveKey(props)) :
       LET c == imagePrimaryTry(props.provider, o)
           lg == addLogs(logs, imagePrimaryLog(props.provider, o, c))
           g == [gen EXCEPT !.primaryErr = c.err, !.primary = o]
       IN IF attemptsFallback(props.provider, c)
          THEN /\ gen' = [g EXCEPT !.pc = "secondary", !.secondaryCalls = @ + 1]
               /\ logs' = lg
               /\ UNCHANGED <<run, hasApiKey, isGenerating, progressIndex, generatedImages,
                              alerts>>
          ELSE Resume(imageRethrow(c), lg, GenSettled(g, imageRethrow(c)))
  /\ props' = propsAfterRunStep(props)
  /\ UNCHANGED <<step, keyChecked>>
  /\ UNCHANGED planVars
  /\ UNCHANGED appVars

\* the secondary model call settles
SecondarySettle ==
  /\ gen.pc = "secondary"
  /\ \E o \in GoogleSecondaryOutcomes(effectiveKey(props)) :
       LET c == googleFallback(o, gen.primaryErr)
       IN Resume(c, addLogs(logs, imageFallbackLog(o)),
                 GenSettled([gen EXCEPT !.secondary = o], c))
  /\ props' = propsAfterRunStep(props)
  /\ UNCHANGED <<step, keyChecked>>
  /\ UNCHANGED planVars
  /\ UNCHANGED appVars

\* the "New Project" button: the App goes back to the upload step and
\* unmounts the preview screen; a run that is going on is not cancelled
Restart ==
  /\ Mounted
  /\ onRestart
  /\ UNCHANGED <<props, run, gen, alerts, logs, orphans, sessions, exported, editor>>
  /\ UNCHANGED planVars

Init == PreviewInit

Next ==
  \/ CheckKey
  \/ HandleSelectKey
  \/ StartGeneration
  \/ PrimarySettle
  \/ SecondarySettle
  \/ Restart

Spec == Init /\ [][Next]_vars

\* the preview screen when every call to an image model settles: a pending
\* promise is resolved or rejected, and the continuation of
\* generateFinalSlideImage and of startGeneration then runs
SpecFair == Spec /\ WF_vars(PrimarySettle) /\ WF_vars(SecondarySettle)

---------------------------------------------------------------------------
(* startGeneration called again on a preview screen where some slides      *)
(* already have their image, whatever the screen shows.                    *)

BatchInit ==
  /\ props \in {p \in PreviewProps :
                  p.apiKey # "" /\ Len(planSlides(p.plan)) <= MaxBatchSlides}
  /\ step = "PREVIEW"
  /\ pIn = [ slideCount |-> Len(planSlides(props.plan)), outputLanguage |-> "en",
             styleInput |-> <<"Retro">>, requirementsInput |-> <<"brief">>,
             provider |-> props.provider, apiKey |-> props.apiKey, envKey |-> props.envKey ]
  /\ pPc = "resolved"
  /\ pOutcome = Outcome("reject", <<"Failed to fetch">>)
  /\ pSettled = Normal(createFallbackPlan(pIn.slideCount, "en", <<"Retro">>))
  /\ pCalls = 1
  /\ logs = addLogs(addLogs(<<>>, planRequestLog(pIn)), planSettleLog(pIn, pOutcome))
  /\ hasApiKey = TRUE
  /\ isGenerating = FALSE
  /\ generatedImages \in [1..Len(planSlides(props.plan)) -> {<<>>, DataUri("AAAA")}]
  /\ progressIndex = IF \A k \in 1..Len(generatedImages) : generatedImages[k] = <<>>
                     THEN 0 ELSE Len(generatedImages)
  /\ keyChecked = TRUE
  /\ run = NoRun
  /\ gen = NoGen
  /\ alerts = <<>>
  /\ appPlan = props.plan
  /\ orphans = <<>>
  /\ sessions = 1
  /\ exported = <<>>
  /\ editor = NoEditor

InvokeStartGeneration ==
  /\ Mounted
  /\ ~isGenerating
  /\ startGenerationCall

BatchNext ==
  \/ InvokeStartGeneration
  \/ PrimarySettle
  \/ SecondarySettle

SpecBatch == BatchInit /\ [][BatchNext]_vars

---------------------------------------------------------------------------
(* The App from the upload step on: processing, editor, preview, restart,  *)
(* and the runs of preview screens that were left behind.                  *)

\* the upload form as the user filled it: Managed SDK provider, no key typed
\* and none in the environment
AppForms ==
  {in \in PlanInputs(MaxAppSlides) :
     /\ in.provider = "google" /\ in.apiKey = "" /\ in.envKey = ""
     /\ in.outputLanguage = "en" /\ in.styleInput = <<"Retro">>}

AppInit ==
  /\ pIn \in AppForms
  /\ pPc = "idle"
  /\ pOutcome = NoOutcome
  /\ pSettled = Normal(Undefined)
  /\ pCalls = 0
  /\ logs = <<>>
  /\ step = "UPLOAD"
  /\ props = <<>>
  /\ hasApiKey = FALSE
  /\ isGenerating = FALSE
  /\ progressIndex = 0
  /\ generatedImages = <<>>
  /\ keyChecked = FALSE
  /\ run = NoRun
  /\ gen = NoGen
  /\ alerts = <<>>
  /\ appPlan = JNull
  /\ orphans = <<>>
  /\ sessions = 0
  /\ exported = <<>>
  /\ editor = NoEditor

\* handleStartProcessing up to its first await (processFiles)
HandleStartProcessing ==
  /\ step = "UPLOAD"
  /\ sessions < MaxSessions
  /\ sessions' = sessions + 1
  /\ step' = "PROCESSING"
  /\ pPc' = "files"
  /\ UNCHANGED <<pIn, pOutcome, pSettled, pCalls, logs, props, hasApiKey, isGenerating,
                 progressIndex, generatedImages, keyChecked, run, gen, alerts, appPlan,
                 orphans, exported, editor>>

\* processFiles settles: generateSlidePlan is called, or the catch block
\* raises the notice and goes back to the upload step
FilesSettle ==
  /\ pPc = "files"
  /\ \E read \in BOOLEAN :
       IF read
       THEN /\ pPc' = "await"
            /\ pCalls' = 1
            /\ logs' = addLogs(logs, planRequestLog(pIn))
            /\ UNCHANGED <<step, alerts>>
       ELSE /\ pPc' = "idle"
            /\ alerts' = Append(alerts, "errorProcessing")
            /\ step' = "UPLOAD"
            /\ UNCHANGED <<pCalls, logs>>
  /\ UNCHANGED <<pIn, pOutcome, pSettled, props, hasApiKey, isGenerating, progressIndex,
                 generatedImages, keyChecked, run, gen>>
  /\ UNCHANGED appVars

\* generateSlidePlan settles: the plan is set and the editor shown, or the
\* catch block raises the notice
ProcessingPlanSettle ==
  /\ pPc = "await"
  /\ step = "PROCESSING"
  /\ \E o \in PlanOutcomes(pIn) :
       LET c == generateSlidePlan(pIn, o)
       IN /\ pOutcome' = o
          /\ pSettled' = c
          /\ logs' = addLogs(logs, planSettleLog(pIn, o))
          /\ IF c.threw
             THEN /\ pPc' = "rejected"
                  /\ alerts' = Append(alerts, "errorProcessing")
                  /\ step' = "UPLOAD"
                  /\ UNCHANGED appPlan
             ELSE /\ pPc' = "resolved"
                  /\ appPlan' = c.val
                  /\ step' = "EDITOR"
                  /\ UNCHANGED alerts
  /\ UNCHANGED <<pIn, pCalls, props, hasApiKey, isGenerating, progressIndex,
                 generatedImages, keyChecked, run, gen, orphans, sessions, exported, editor>>

Orphan(p, r, g) == [props |-> p, run |-> r, gen |-> g]

\* onConfirm of the editor: the preview screen is mounted with the plan; a
\* startGeneration call of the screen before it goes on beside it
EditorConfirm ==
  /\ step = "EDITOR"
  /\ step' = "PREVIEW"
  /\ props' = [ plan |-> appPlan, images |-> SessionImages, uiLanguage |-> "en",
                provider |-> pIn.provider, apiKey |-> pIn.apiKey, envKey |-> pIn.envKey,
                aistudio |-> FALSE ]
  /\ hasApiKey' = FALSE
  /\ isGenerating' = FALSE
  /\ progressIndex' = 0
  /\ generatedImages' = [k \in 1..Len(planSlides(appPlan)) |-> <<>>]
  /\ keyChecked' = FALSE
  /\ run' = NoRun
  /\ gen' = NoGen
  /\ orphans' = IF run.pc = "await" THEN Append(orphans, Orphan(props, run, gen))
                ELSE orphans
  /\ UNCHANGED <<logs, alerts, appPlan, sessions, exported, editor>>
  /\ UNCHANGED planVars

\* what a left-behind startGeneration call does from loop index "from" up
\* to its next await or its end: its state setters do nothing, its props
\* are those of its closure; "entries" is what it hands to addLog
orphanProceed(o, r, results, from, entries) ==
  LET k == nextUnrendered(results, from)
      slide == planSlides(o.props.plan)[k]
  IN IF k = 0
     THEN [orphan |-> Orphan(o.props, [r EXCEPT !.pc = "completed", !.results = results],
                             o.gen),
           entries |-> entries, notice |-> FALSE]
     ELSE [orphan |-> Orphan(o.props,
                             [r EXCEPT !.pc = "await", !.i = k - 1, !.results = results,
                                       !.attempts[k] = @ + 1],
                             GenStart(k, resolveImages(slide, o.props.images))),
           entries |-> entries \o imageRequestLog(o.props.provider, o.props.apiKey), notice |-> FALSE]

\* the left-behind call after its generateFinalSlideImage has settled with c
orphanResume(o, c, entries) ==
  LET k == o.run.i + 1
      g == GenSettled(o.gen, c)
      results == [o.run.results EXCEPT ![k] = c.val]
      failed == [o.run EXCEPT !.errors[k] = errorMsgOf(c.err), !.settled[k] = c]
      done == Orphan(o.props, o.run, g)
  IN IF ~c.threw
     THEN orphanProceed(done, [o.run EXCEPT !.settled[k] = c], results, k + 1, entries)
     ELSE IF isAbortError(errorMsgOf(c.err))
     THEN [orphan |-> Orphan(o.props,
                             [failed EXCEPT !.pc = "aborted",
                                            !.permissionErrorOccurred = TRUE,
                                            !.notices = @ + 1], g),
           entries |-> entries \o slideErrorLog(k, c.err), notice |-> TRUE]
     ELSE orphanProceed(done, failed, o.run.results, k + 1,
                        entries \o slideErrorLog(k, c.err))

OrphanApply(j, res) ==
  /\ orphans' = [orphans EXCEPT ![j] = res.orphan]
  /\ logs' = addLogs(logs, res.entries)
  /\ alerts' = IF res.notice
               THEN Append(alerts, PermissionNotice(orphans[j].props.uiLanguage))
               ELSE alerts

\* the primary model call of a left-behind run settles
OrphanPrimarySettle ==
  /\ \E j \in DOMAIN orphans :
       LET o == orphans[j]
       IN /\ o.gen.pc = "primary"
          /\ \E x \in ImagePrimaryOutcomes(o.props.provider, effectiveKey(o.props)) :
               LET c == imagePrimaryTry(o.props.provider, x)
                   entries == imagePrimaryLog(o.props.provider, x, c)
                   g == [o.gen EXCEPT !.primaryErr = c.err, !.primary = x]
               IN IF attemptsFallback(o.props.provider, c)
                  THEN /\ orphans' = [orphans EXCEPT ![j].gen =
                                        [g EXCEPT !.pc = "secondary", !.secondaryCalls = @ + 1]]
                       /\ logs' = addLogs(logs, entries)
                       /\ UNCHANGED alerts
                  ELSE OrphanApply(j, orphanResume(Orphan(o.props, o.run, g),
                                                   imageRethrow(c), entries))
  /\ UNCHANGED <<step, props, hasApiKey, isGenerating, progressIndex, generatedImages,
                 keyChecked, run, gen, appPlan, sessions, exported, editor>>
  /\ UNCHANGED planVars

\* the secondary model call of a left-behind run settles
OrphanSecondarySettle ==
  /\ \E j \in DOMAIN orphans :
       LET o == orphans[j]
       IN /\ o.gen.pc = "secondary"
          /\ \E x \in GoogleSecondaryOutcomes(effectiveKey(o.props)) :
               OrphanApply(j, orphanResume(Orphan(o.props, o.run,
                                                  [o.gen EXCEPT !.secondary = x]),
                                           googleFallback(x, o.gen.primaryErr),
                                           imageFallbackLog(x)))
  /\ UNCHANGED <<step, props, hasApiKey, isGenerating, progressIndex, generatedImages,
                 keyChecked, run, gen, appPlan, sessions, exported, editor>>
  /\ UNCHANGED planVars

\* the "Download Logs" button: the log is read and written to a file
downloadLogs ==
  /\ exported' = logs
  /\ UNCHANGED <<logs, step, props, hasApiKey, isGenerating, progressIndex,
                 generatedImages, keyChecked, run, gen, alerts, appPlan, orphans, sessions,
                 editor>>
  /\ UNCHANGED planVars

AppNext ==
  \/ HandleStartProcessing
  \/ FilesSettle
  \/ ProcessingPlanSettle
  \/ EditorConfirm
  \/ CheckKey
  \/ HandleSelectKey
  \/ StartGeneration
  \/ PrimarySettle
  \/ SecondarySettle
  \/ Restart
  \/ OrphanPrimarySettle
  \/ OrphanSecondarySettle
  \/ downloadLogs

SpecApp == AppInit /\ [][AppNext]_vars

---------------------------------------------------------------------------
(* The editor step: SlideEditor's handlers, each ending in onUpdatePlan    *)
(* (App.handleUpdatePlan, setPlan).                                        *)

\* lines 27-31; index is 0-based
handleUpdateSlide(plan, index, updatedSlide) ==
  Put(plan, K("slides"), Arr([planSlides(plan) EXCEPT ![index + 1] = updatedSlide]))

\* lines 33-35
handleUpdateStyle(plan, newStyle) == Put(plan, K("style"), Str(newStyle))

\* slide.selectedImageIds || []
currentIds(slide) ==
  LET ids == Get(slide, K("selectedImageIds")) IN IF Truthy(ids) THEN ids.v ELSE <<>>

\* the onChange handlers of the title input and the bullets textarea
editTitle(plan, index, value) ==
  handleUpdateSlide(plan, index, Put(planSlides(plan)[index + 1], K("title"), Str(value)))

editBullets(plan, index, value) ==
  LET lines == split(value, <<NL>>)
  IN handleUpdateSlide(plan, index,
                       Put(planSlides(plan)[index + 1], K("bullets"),
                           Arr([j \in 1..Len(lines) |-> Str(lines[j])])))

\* handleDrop, an image dragged from the sidebar (lines 55-68)
dropImage(plan, slideIndex, imageId) ==
  LET slide == planSlides(plan)[slideIndex + 1]
      ids == currentIds(slide)
  IN IF \E j \in DOMAIN ids : ids[j] = Str(imageId) THEN plan
     ELSE handleUpdateSlide(plan, slideIndex,
                            Put(slide, K("selectedImageIds"), Arr(Append(ids, Str(imageId)))))

\* mutant of dropFiles: the new ids are merged into the plan of the App as
\* it is when onAddImages settles
dropFilesOnCurrentPlan(plan, slideIndex, newImageIds) ==
  IF slideIndex + 1 \notin DOMAIN planSlides(appPlan) THEN appPlan
  ELSE LET slide == planSlides(appPlan)[slideIndex + 1]
       IN handleUpdateSlide(appPlan, slideIndex,
                            Put(slide, K("selectedImageIds"),
                                Arr(currentIds(slide) \o newImageIds)))

\* handleDrop, files dragged from the desktop, once onAddImages has settled
\* (lines 75-84); plan is the plan of the handler's closure
dropFiles(plan, slideIndex, newImageIds) ==
  LET slide == planSlides(plan)[slideIndex + 1]
  IN handleUpdateSlide(plan, slideIndex,
                       Put(slide, K("selectedImageIds"),
                           Arr(currentIds(slide) \o newImageIds)))

\* lines 89-96
removeImageFromSlide(plan, slideIndex, imageIdToRemove) ==
  LET slide == planSlides(plan)[slideIndex + 1]
      keep(id) == id # Str(imageIdToRemove)
  IN handleUpdateSlide(plan, slideIndex,
                       Put(slide, K("selectedImageIds"),
                           Arr(SelectSeq(currentIds(slide), keep))))

\* what the user types and drags
Titles == {<<"Agenda">>}
BulletTexts == {<<"first", NL, "second">>}
StyleTexts == {<<"Noir">>}
DraggedIds == {<<"img1">>}
\* ids of the images onAddImages returns: none when processFiles failed
AddedIds == {<<>>, <<Str(<<"new1">>)>>}

EditorShown == step = "EDITOR" /\ appPlan # JNull

SlideIndexes == 0..(Len(planSlides(appPlan)) - 1)

\* a handler of the editor that ends in onUpdatePlan(updated) at once
EditorUpdate(updated) ==
  /\ EditorShown
  /\ editor.edits < MaxEdits
  /\ appPlan' = updated
  /\ editor' = [editor EXCEPT !.edits = @ + 1]
  /\ UNCHANGED <<logs, orphans, sessions, exported>>
  /\ UNCHANGED planVars
  /\ UNCHANGED previewVars

EditTitle ==
  \E index \in SlideIndexes, value \in Titles :
    EditorShown /\ EditorUpdate(editTitle(appPlan, index, value))

EditBullets ==
  \E index \in SlideIndexes, value \in BulletTexts :
    EditorShown /\ EditorUpdate(editBullets(appPlan, index, value))

EditStyle ==
  \E value \in StyleTexts : EditorShown /\ EditorUpdate(handleUpdateStyle(appPlan, value))

DropImage ==
  \E index \in SlideIndexes, id \in DraggedIds :
    EditorShown /\ EditorUpdate(dropImage(appPlan, index, id))

RemoveImage ==
  \E index \in SlideIndexes :
    /\ EditorShown
    /\ \E j \in DOMAIN currentIds(planSlides(appPlan)[index + 1]) :
         EditorUpdate(removeImageFromSlide(appPlan, index,
                                           currentIds(planSlides(appPlan)[index + 1])[j].v))

\* handleDrop with image files, up to its await onAddImages
DropFiles ==
  /\ EditorShown
  /\ editor.edits < MaxEdits
  /\ \E index \in SlideIndexes :
       editor' = [edits |-> editor.edits + 1,
                  drops |-> Append(editor.drops,
                                   [plan |-> appPlan, index |-> index, pc |-> "await"])]
  /\ UNCHANGED <<appPlan, logs, orphans, sessions, exported>>
  /\ UNCHANGED planVars
  /\ UNCHANGED previewVars

\* onAddImages settles: the handler goes on with the plan of its closure;
\* a mounted preview screen gets the new plan as its prop
DropFilesSettle ==
  /\ \E j \in DOMAIN editor.drops, newImageIds \in AddedIds :
       LET d == editor.drops[j]
       IN /\ d.pc = "await"
          /\ appPlan' = dropFiles(d.plan, d.index, newImageIds)
          /\ editor' = [editor EXCEPT !.drops[j].pc = "done"]
  /\ props' = IF Mounted THEN [props EXCEPT !.plan = appPlan'] ELSE props
  /\ UNCHANGED <<step, hasApiKey, isGenerating, progressIndex, generatedImages,
                 keyChecked, run, gen, alerts, logs, orphans, sessions, exported>>
  /\ UNCHANGED planVars

\* the slide count field of the upload form
onSlideCountChange ==
  /\ step = "UPLOAD"
  /\ \E n \in 1..MaxAppSlides :
       /\ n # pIn.slideCount
       /\ pIn' = [pIn EXCEPT !.slideCount = n]
  /\ UNCHANGED <<pPc, pOutcome, pSettled, pCalls>>
  /\ UNCHANGED previewVars
  /\ UNCHANGED <<logs, appPlan, orphans, sessions, exported, editor>>

EditorNext ==
  \/ onSlideCountChange
  \/ HandleStartProcessing
  \/ FilesSettle
  \/ ProcessingPlanSettle
  \/ EditTitle
  \/ EditBullets
  \/ EditStyle
  \/ DropImage
  \/ RemoveImage
  \/ DropFiles
  \/ DropFilesSettle
  \/ EditorConfirm
  \/ Restart

SpecEditor == AppInit /\ [][EditorNext]_vars

---------------------------------------------------------------------------
(* generateFinalSlideImage on its own: one call, the models answering with *)
(* any content parts.                                                      *)

\* a content part: text, an image, another image, inlineData without data
Parts == {Part(FALSE, ""), Part(TRUE, "AAAA"), Part(TRUE, "BBBB"), Part(TRUE, "")}

PartSeqs == UNION {[1..m -> Parts] : m \in 0..MaxParts}

ImageAnswers(shortcuts) ==
  {ImageOutcome("ok", <<>>, ImageResponse(b, ps)) : b \in shortcuts, ps \in PartSeqs}

RenderPrimaryOutcomes(provider) ==
  IF provider = "zenmux"
  THEN ImageAnswers({"", "CCCC"})
       \cup {ImageOutcome("reject", MNetwork, NoResponse),
             ImageOutcome("status", M403, NoResponse)}
  ELSE ImageAnswers({""})
       \cup {ImageOutcome("reject", M403, NoResponse),
             ImageOutcome("reject", MNotFound, NoResponse),
             ImageOutcome("reject", MNetwork, NoResponse)}

RenderSecondaryOutcomes ==
  ImageAnswers({""}) \cup {ImageOutcome("reject", MQuota, NoResponse)}

RenderInit ==
  /\ props \in {p \in PreviewProps :
                  /\ p.apiKey = "sk-test"
                  /\ Len(planSlides(p.plan)) = 1}
  /\ step = "PREVIEW"
  /\ pIn = [ slideCount |-> 1, outputLanguage |-> "en",
             styleInput |-> <<"Retro">>, requirementsInput |-> <<"brief">>,
             provider |-> props.provider, apiKey |-> props.apiKey, envKey |-> props.envKey ]
  /\ pPc = "resolved"
  /\ pOutcome = Outcome("reject", <<"Failed to fetch">>)
  /\ pSettled = Normal(createFallbackPlan(1, "en", <<"Retro">>))
  /\ pCalls = 1
  /\ logs = <<>>
  /\ hasApiKey = TRUE
  /\ isGenerating = FALSE
  /\ progressIndex = 0
  /\ generatedImages = <<<<>>>>
  /\ keyChecked = TRUE
  /\ run = NoRun
  /\ gen = NoGen
  /\ alerts = <<>>
  /\ appPlan = props.plan
  /\ orphans = <<>>
  /\ sessions = 1
  /\ exported = <<>>
  /\ editor = NoEditor

\* generateFinalSlideImage is called for slide 1, up to its first await
RenderCall ==
  /\ gen.pc = "idle"
  /\ gen' = GenStart(1, resolveImages(planSlides(props.plan)[1], props.images))
  /\ logs' = addLogs(logs, imageRequestLog(props.provider, props.apiKey))
  /\ UNCHANGED <<step, props, hasApiKey, isGenerating, progressIndex, generatedImages,
                 keyChecked, run, alerts>>
  /\ UNCHANGED planVars
  /\ UNCHANGED appVars

\* the primary model answers
RenderPrimarySettle ==
  /\ gen.pc = "primary"
  /\ \E o \in RenderPrimaryOutcomes(props.provider) :
       LET c == imagePrimaryTry(props.provider, o)
           g == [gen EXCEPT !.primaryErr = c.err, !.primary = o]
       IN /\ logs' = addLogs(logs, imagePrimaryLog(props.provider, o, c))
          /\ gen' = IF attemptsFallback(props.provider, c)
                    THEN [g EXCEPT !.pc = "secondary", !.secondaryCalls = @ + 1]
                    ELSE GenSettled(g, imageRethrow(c))
  /\ UNCHANGED <<step, props, hasApiKey, isGenerating, progressIndex, generatedImages,
                 keyChecked, run, alerts>>
  /\ UNCHANGED planVars
  /\ UNCHANGED appVars

\* the secondary model answers
RenderSecondarySettle ==
  /\ gen.pc = "secondary"
  /\ \E o \in RenderSecondaryOutcomes :
       /\ logs' = addLogs(logs, imageFallbackLog(o))
       /\ gen' = GenSettled([gen EXCEPT !.secondary = o], googleFallback(o, gen.primaryErr))
  /\ UNCHANGED <<step, props, hasApiKey, isGenerating, progressIndex, generatedImages,
                 keyChecked, run, alerts>>
  /\ UNCHANGED planVars
  /\ UNCHANGED appVars

RenderNext == RenderCall \/ RenderPrimarySettle \/ RenderSecondarySettle

SpecRender == RenderInit /\ [][RenderNext]_vars

---------------------------------------------------------------------------
(* Claims about the plan generator.                                        *)

\* the slides of a returned plan
SlidesOf(plan) == Get(plan, K("slides")).v

\* value of a decimal digit string; -1 if it is not one
RECURSIVE DecimalValue(_)
DecimalValue(d) ==
  IF Len(d) = 0 \/ \E i \in 1..Len(d) : d[i] \notin DigitSet THEN -1
  ELSE LET last == CHOOSE k \in 0..9 : DigitChars[k + 1] = d[Len(d)]
       IN IF Len(d) = 1 THEN last
          ELSE 10 * DecimalValue(SubSeq(d, 1, Len(d) - 1)) + last

TheFallback == createFallbackPlan(pIn.slideCount, pIn.outputLanguage, pIn.styleInput)

\* JSON documents with no slides array: field missing, null, not an array
NoSlidesDocs == {d \in OddDocs : Get(d, K("slides")).t # "arr"}

\* the failures of the provider call: transport failure, non-OK status,
\* missing or empty content, text that is not JSON, JSON without slides
PlanCallFailed ==
  \/ pOutcome.kind \in {"reject", "badbody", "status"}
  \/ pOutcome.kind = "ok" /\ pOutcome.text = <<>>
  \/ pOutcome.kind = "ok" /\ pOutcome.text \in NonJsonTexts
  \/ pOutcome.kind = "ok" /\ pOutcome.text \in {stringify(d) : d \in NoSlidesDocs}

\* C1: generateSlidePlan never rejects: whatever the provider call gave, it
\* resolves with a plan object, and after a transport failure, a non-OK
\* status, missing or empty content, text that is not JSON or JSON without
\* slides that plan is the fallback plan for (slideCount, outputLanguage, style).
C1_NeverRejects ==
  /\ pPc # "rejected"
  /\ pPc = "resolved" =>
       /\ ~pSettled.threw
       /\ pSettled.val.t = "obj"
       /\ Get(pSettled.val, K("slides")).t = "arr"
       /\ PlanCallFailed => pSettled.val = TheFallback

C1_Witness ==
  /\ pPc = "resolved"
  /\ pOutcome.kind = "status"
  /\ pSettled.val = TheFallback

\* C2: for every slideCount in 1..99 and either language the fallback plan has
\* exactly slideCount slides, the id of the slide at position i is "slide-"
\* followed by the decimal index i, ids are pairwise distinct, and every slide
\* has a non-empty list of non-empty bullets.
C2_FallbackShape ==
  pPc = "resolved" =>
    LET sl == SlidesOf(pSettled.val)
    IN /\ Len(sl) = pIn.slideCount
       /\ \A i \in 1..Len(sl) :
            /\ Get(sl[i], K("id")).t = "str"
            /\ Head(Get(sl[i], K("id")).v) = "slide-"
            /\ DecimalValue(Tail(Get(sl[i], K("id")).v)) = i - 1
            /\ Get(sl[i], K("bullets")).t = "arr"
            /\ Len(Get(sl[i], K("bullets")).v) > 0
            /\ \A b \in 1..Len(Get(sl[i], K("bullets")).v) :
                 Truthy(Get(sl[i], K("bullets")).v[b])
       /\ \A i, j \in 1..Len(sl) : i # j => Get(sl[i], K("id")) # Get(sl[j], K("id"))

C2_Witness ==
  /\ pPc = "resolved"
  /\ pIn.slideCount = MaxSlideCount
  /\ Len(SlidesOf(pSettled.val)) = MaxSlideCount

\* C3: in the fallback plan the slide at 0-based position i is titled
\* "Slide i+1" (en) or the Chinese word for slide and i+1 (zh), has exactly the
\* two placeholder bullets of the requested language, visualNote "Placeholder"
\* and selectedImageIds = [], and plan.style is the style the caller passed.
C3_FallbackContent ==
  pPc = "resolved" =>
    LET sl == SlidesOf(pSettled.val)
        zh == pIn.outputLanguage = "zh"
    IN /\ Get(pSettled.val, K("style")) = Str(pIn.styleInput)
       /\ \A i \in 1..Len(sl) :
            /\ SubSeq(Get(sl[i], K("title")).v, 1, 2)
                 = <<IF zh THEN ZH_SLIDE ELSE "Slide", SP>>
            /\ DecimalValue(SubSeq(Get(sl[i], K("title")).v, 3,
                                   Len(Get(sl[i], K("title")).v))) = i
            /\ Get(sl[i], K("bullets")) =
                 Arr(IF zh THEN <<Str(<<ZH_FAILED>>), Str(<<ZH_EDIT>>)>>
                     ELSE <<Str(<<"Content generation failed.">>),
                            Str(<<"Please edit manually.">>)>>)
            /\ Get(sl[i], K("visualNote")) = Str(<<"Placeholder">>)
            /\ Get(sl[i], K("selectedImageIds")) = Arr(<<>>)

C3_Witness ==
  /\ pPc = "resolved"
  /\ pIn.outputLanguage = "zh"
  /\ pIn.styleInput # <<>>
  /\ Len(SlidesOf(pSettled.val)) >= 10

\* C4: every plan generateSlidePlan returns, parsed or fallback, for either
\* provider, has selectedImageIds = [] on every slide, whatever the model put
\* in that field.
C4_SelectedImageIdsEmpty ==
  pPc = "resolved" =>
    \A i \in 1..Len(SlidesOf(pSettled.val)) :
      Get(SlidesOf(pSettled.val)[i], K("selectedImageIds")) = Arr(<<>>)

\* the model's answer carried a slide with images and the parsed plan came back
C4_Witness ==
  /\ pPc = "resolved"
  /\ pSettled.val # TheFallback
  /\ \E d \in ModelPlans :
       /\ \E i \in 1..Len(SlidesOf(d)) :
            Get(SlidesOf(d)[i], K("selectedImageIds")) = Arr(<<Str(<<"img1">>)>>)
       /\ pOutcome.text = stringify(d)

\* C5: every plan generateSlidePlan returns has exactly slideCount slides,
\* whatever number of slides the model's answer holds.
C5_ExactSlideCount ==
  pPc = "resolved" => Len(SlidesOf(pSettled.val)) = pIn.slideCount

\* C6: in every plan generateSlidePlan returns, slide ids are pairwise distinct.
C6_DistinctIds ==
  pPc = "resolved" =>
    \A i, j \in 1..Len(SlidesOf(pSettled.val)) :
      i # j => Get(SlidesOf(pSettled.val)[i], K("id")) # Get(SlidesOf(pSettled.val)[j], K("id"))

\* C7: Gateway: an answer whose content is the JSON text J inside a fence,
\* tagged json or untagged, gives the same plan as the answer whose content is
\* J itself.
C7_FenceRoundTrip ==
  (pPc = "resolved" /\ pIn.provider = "zenmux" /\ pOutcome.kind = "ok") =>
    \A J \in JsonTexts : \A f \in {"json", "plain"} :
      pOutcome.text = Wrap(J, f) => pSettled = generateSlidePlan(pIn, Outcome("ok", J))

\* a fenced plan came back as the model's plan, not as the fallback
C7_Witness ==
  /\ pPc = "resolved"
  /\ pIn.provider = "zenmux"
  /\ pSettled.val # TheFallback
  /\ \E J \in JsonTexts : pOutcome.text = Wrap(J, "json")

---------------------------------------------------------------------------
(* Claims about the slide image generator and the batch run.               *)

HasFallbackMarker(msg) ==
  \/ includes(msg, <<"permission">>)
  \/ includes(msg, <<"403">>)
  \/ includes(msg, <<"not found">>)

HasAbortMarker(msg) ==
  \/ includes(msg, <<"permission">>)
  \/ includes(msg, <<"403">>)
  \/ includes(msg, <<"quota">>)

GenSettledNow == gen.pc \in {"resolved", "rejected"}

PrimaryFailed == gen.primaryErr # NoError

\* C8: for either provider, when the primary image-model call has failed
\* with a message that contains a fallback-eligible marker, the call has
\* made exactly one secondary-model call by the time it settles.
\* Fails for the Gateway provider, whose catch block rethrows at once.
C8_OneSecondaryCall ==
  (GenSettledNow /\ PrimaryFailed /\ HasFallbackMarker(gen.primaryErr.message))
    => gen.secondaryCalls = 1

\* C9: when the primary image-model call has failed with a message that
\* contains none of "permission", "403", "not found", no secondary call is
\* made and the call rejects with that very error.
C9_NoMarkerPropagates ==
  (PrimaryFailed /\ ~HasFallbackMarker(gen.primaryErr.message))
    => /\ gen.secondaryCalls = 0
       /\ gen.primaryCalls = 1
       /\ gen.pc = "rejected"
       /\ gen.settled = Throw(gen.primaryErr)

C9_Witness ==
  /\ props.provider = "google"
  /\ gen.primaryErr = Err("Error", MNetwork)
  /\ gen.pc = "rejected"
  /\ gen.secondaryCalls = 0

\* C10: in a batch run, once rendering slide k has failed with a message
\* that contains "permission", "403" or "quota", the run is aborted at k:
\* every earlier slide that had no image was attempted, slide k was
\* attempted exactly once, no later slide was attempted, and exactly one
\* notice was raised.
C10_AbortOnPermissionOrQuota ==
  \A k \in 1..Len(run.errors) :
    HasAbortMarker(run.errors[k]) =>
      /\ run.pc = "aborted"
      /\ run.permissionErrorOccurred
      /\ run.i + 1 = k
      /\ \A j \in 1..(k - 1) :
           \/ run.attempts[j] = 1
           \/ run.attempts[j] = 0 /\ run.results[j] # <<>>
      /\ run.attempts[k] = 1
      /\ \A j \in (k + 1)..Len(run.attempts) : run.attempts[j] = 0
      /\ run.notices = 1
      /\ Len(alerts) >= 1

C10_Witness ==
  /\ run.pc = "aborted"
  /\ Len(run.attempts) = 3
  /\ run.i = 1
  /\ run.results[1] # <<>>
  /\ includes(run.errors[2], <<"quota">>)
  /\ run.attempts = <<1, 1, 0>>
  /\ run.notices = 1

SlideErrorLogged(k, msg) ==
  \E n \in 1..Len(logs) :
    /\ logs[n].type = "error"
    /\ logs[n].message
         = <<"Error generating slide", SP>> \o NumberToString(k) \o <<":", SP>> \o msg

Rendered(c) == ~c.threw

\* C11: in a batch run, when rendering slide k has failed with a message
\* that contains no abort marker, the run is not aborted at k, slide k has
\* no image, the error is in the log, and every later slide without an
\* image that the loop has come to has been attempted; a slide whose render
\* succeeded holds the image that was returned.
C11_RecoverableErrorContinues ==
  /\ \A k \in 1..Len(run.errors) :
       (run.errors[k] # <<>> /\ ~HasAbortMarker(run.errors[k])) =>
         /\ run.results[k] = <<>>
         /\ Mounted => generatedImages[k] = <<>>
         /\ SlideErrorLogged(k, run.errors[k])
         /\ run.pc = "completed" \/ run.i + 1 > k
         /\ \A j \in (k + 1)..Len(run.attempts) :
              (run.start[j] = <<>> /\ (run.pc = "completed" \/ j <= run.i + 1))
                => run.attempts[j] = 1
  /\ \A k \in 1..Len(run.settled) :
       Rendered(run.settled[k]) =>
         /\ run.results[k] = run.settled[k].val
         /\ Mounted => generatedImages[k] = run.settled[k].val

C11_Witness ==
  /\ Mounted
  /\ run.pc = "completed"
  /\ Len(run.attempts) = 3
  /\ run.errors[2] = MNetwork
  /\ generatedImages[1] # <<>>
  /\ generatedImages[2] = <<>>
  /\ generatedImages[3] # <<>>
  /\ run.attempts = <<1, 1, 1>>

GenInFlight == gen.pc \in {"primary", "secondary"}

\* C12: a slide whose slot holds an image when startGeneration is called is
\* not passed to the image generator in that run, and the slot keeps that
\* image, in the results of the run and on the screen; a second run in a
\* row starts from the slots the first one left.
C12_RenderedSlidesSkipped ==
  /\ \A k \in 1..Len(run.start) :
       run.start[k] # <<>> =>
         /\ run.attempts[k] = 0
         /\ run.results[k] = run.start[k]
         /\ generatedImages[k] = run.start[k]
  /\ (GenInFlight /\ run.n >= 1) => run.start[gen.slide] = <<>>

C12_Witness ==
  /\ run.n = 2
  /\ run.pc = "completed"
  /\ run.start = <<DataUri("BBBB"), <<>>>>
  /\ run.attempts = <<0, 1>>
  /\ generatedImages[1] = DataUri("BBBB")
  /\ generatedImages[2] # <<>>

---------------------------------------------------------------------------
(* Claims about the session as a whole (App).                              *)

CallInFlight(g) == g.pc \in {"primary", "secondary"}

\* generateFinalSlideImage calls that have not settled yet, those of
\* left-behind runs included
InFlightCalls ==
  (IF CallInFlight(gen) THEN 1 ELSE 0)
  + Cardinality({j \in DOMAIN orphans : CallInFlight(orphans[j].gen)})

\* C13: at every moment at most one generateFinalSlideImage call is in
\* flight in the session.
C13_AtMostOneInFlight == InFlightCalls <= 1

\* the quota/permission notice has been shown
AbortNoticeRaised ==
  \E j \in DOMAIN alerts : alerts[j] \in {PermissionNotice("en"), PermissionNotice("zh")}

\* this step calls generateFinalSlideImage
RenderCallStarts ==
  \/ gen' # gen /\ gen'.pc = "primary"
  \/ \E j \in DOMAIN orphans :
       orphans'[j].gen # orphans[j].gen /\ orphans'[j].gen.pc = "primary"

---------------------------------------------------------------------------
(* Claims about the preview screen (continued).                            *)

\* the credential the generators work with
Credential == effectiveKey(props)

LogsCredential(entry) ==
  \/ "Authorization" \in entry.headers
  \/ entry.apiKeyField = Credential
  \/ \E t \in DOMAIN entry.message : entry.message[t] = Credential

\* C15: no log entry holds the credential: no Authorization header is
\* logged, the apiKey field of a logged payload is masked, and no message
\* carries the key.
C15_CredentialNeverLogged ==
  Credential # "" => \A j \in DOMAIN logs : ~LogsCredential(logs[j])

\* a Gateway render request was logged with its payload, the key being typed
C15_Witness ==
  /\ props.provider = "zenmux"
  /\ props.apiKey = "sk-test"
  /\ \E j \in DOMAIN logs : logs[j].type = "request" /\ logs[j].apiKeyField = "***"
  /\ \E j \in DOMAIN logs : logs[j].type = "error"
  /\ gen.pc = "rejected"

\* the screen offers a control that leads to a generateFinalSlideImage call
\* for slide k: the only handler that calls it is startGeneration, and the
\* only control bound to startGeneration is the start button
RerenderOffered(k) == StartButtonShown /\ generatedImages[k] = <<>>

\* C16: after a run has ended with some slide lacking an image, that slide
\* can be rendered again on its own while the screen stays mounted.
C16_FailedSlideCanBeRerendered ==
  \A k \in DOMAIN generatedImages :
    (Mounted /\ hasApiKey /\ run.pc = "completed" /\ generatedImages[k] = <<>>)
      => RerenderOffered(k)

---------------------------------------------------------------------------
(* Claims about the editor.                                                *)

\* the ids of the slides, in order
SlideIds(plan) == [k \in DOMAIN planSlides(plan) |-> Get(planSlides(plan)[k], K("id"))]

PlanInUse == step \in {"EDITOR", "PREVIEW"}

\* C17: while a plan is in use (editor or preview step), no step changes
\* the number of slides, their order or their ids.
C17_EditorKeepsSlides ==
  [][(PlanInUse /\ PlanInUse') => SlideIds(appPlan') = SlideIds(appPlan)]_vars

---------------------------------------------------------------------------
(* Claims about the session log.                                           *)

IsPrefix(a, b) == Len(a) <= Len(b) /\ \A j \in DOMAIN a : a[j] = b[j]

\* C18: the log is append-only: in every step, restart and log export
\* included, the log before the step is a prefix of the log after it.
C18_LogAppendOnly == [][IsPrefix(logs, logs')]_vars

\* the log was exported after a restart that followed a render request
C18_Witness ==
  /\ step = "UPLOAD"
  /\ appPlan = JNull
  /\ \E j \in DOMAIN logs : logs[j].message = <<"Calling Google Gemini 3 Pro">>
  /\ exported = logs

---------------------------------------------------------------------------
(* Claims about a session without a credential.                            *)

\* no key was typed and the environment has none
CredentialMissing == pIn.apiKey = "" /\ pIn.envKey = ""

NoImageReturned(g, images) ==
  /\ g.pc # "resolved"
  /\ \A k \in DOMAIN images : images[k] = <<>>

---------------------------------------------------------------------------
(* Claims about the classification of slide errors.                        *)

AbortMarkers ==
  { <<"permission">>, <<"403">>, <<"The caller does not have", SP, "permission">>,
    <<"quota">> }

ContainsAbortMarker(msg) == \E m \in AbortMarkers : includes(msg, m)

AbortedAt(k) == run.pc = "aborted" /\ run.i + 1 = k

\* C20: the error of slide k aborts the run if and only if its message
\* contains one of the four markers as it is written; an aborted run was
\* stopped by such an error, and after any other error the loop went on.
C20_AbortIffMarker ==
  /\ \A k \in 1..Len(run.errors) :
       run.errors[k] # <<>> =>
         /\ AbortedAt(k) <=> ContainsAbortMarker(run.errors[k])
         /\ ~ContainsAbortMarker(run.errors[k]) => (run.pc = "completed" \/ run.i + 1 > k)
  /\ run.pc = "aborted" => ContainsAbortMarker(run.errors[run.i + 1])
  /\ run.permissionErrorOccurred <=> run.pc = "aborted"

\* slide 1 failed with "Quota" in its message and slide 2 was attempted
C20_Witness ==
  /\ Len(run.errors) >= 2
  /\ includes(run.errors[1], <<"Quota">>)
  /\ ~ContainsAbortMarker(run.errors[1])
  /\ run.attempts[2] = 1
  /\ run.notices = 0

---------------------------------------------------------------------------
(* Claims about the image generator (continued).                           *)

\* String.prototype.toLowerCase on the tokens of the message universe
LowerToken(tok) ==
  CASE tok = "PERMISSION_DENIED:" -> "permission_denied:"
    [] tok = "Quota" -> "quota"
    [] tok = "Not Found" -> "not found"
    [] OTHER -> tok

toLowerCase(s) == [j \in DOMAIN s |-> LowerToken(s[j])]

\* C21: for the Managed SDK provider, a primary error whose message holds
\* "permission", "403" or "not found" in any letter case has led to one
\* secondary-model call by the time the call settles.
\* Fails: the test is String.prototype.includes on the message as it is.
C21_CaseInsensitiveFallback ==
  ( /\ props # <<>>
    /\ props.provider = "google"
    /\ GenSettledNow
    /\ PrimaryFailed
    /\ fallbackEligible(toLowerCase(errorMsgOf(gen.primaryErr))) )
    => gen.secondaryCalls = 1

\* the secondary model was called and gave no image: it rejected, or its
\* answer has no image part
SecondaryFailed ==
  /\ gen.secondaryCalls = 1
  /\ \/ gen.secondary.kind = "reject"
     \/ gen.secondary.kind = "ok" /\ ~extractGoogle(gen.secondary.resp).found

\* C22: when the primary call failed with a fallback-eligible error and the
\* secondary call failed too, the call rejects, no image comes out of it,
\* the error is the error of the secondary call as it was thrown, or the
\* primary error when the secondary answer had no image part, and two
\* model calls were made.
C22_BothFailPropagates ==
  (GenSettledNow /\ PrimaryFailed /\ SecondaryFailed) =>
    /\ HasFallbackMarker(errorMsgOf(gen.primaryErr))
    /\ gen.pc = "rejected"
    /\ gen.settled.threw
    /\ gen.settled.val = Undefined
    /\ gen.settled.err = IF gen.secondary.kind = "reject"
                         THEN Err("Error", gen.secondary.text) ELSE gen.primaryErr
    /\ gen.primaryCalls + gen.secondaryCalls = 2

\* primary "not found", secondary "403": the call rejected with the latter
C22_Witness ==
  /\ gen.pc = "rejected"
  /\ gen.primaryErr = Err("Error", MNotFound)
  /\ gen.secondary.kind = "reject"
  /\ gen.settled = Throw(Err("Error", M403))

\* the answer of the model that was called last
LastAnswer == IF gen.secondaryCalls = 1 THEN gen.secondary ELSE gen.primary

\* the content parts that carry an inline image
ImageParts(resp) ==
  {j \in DOMAIN resp.parts : resp.parts[j].inline /\ resp.parts[j].data # ""}

FirstImagePart(resp) ==
  CHOOSE j \in ImageParts(resp) : \A m \in ImageParts(resp) : j <= m

NoImageMessages ==
  {<<"No image data found in response">>, <<"No image data found in Zenmux response">>}

\* C23: when the model called last has answered (without the top-level
\* imageBase64), the call returns the data URI of the first part that
\* carries an inline image, and with no such part it fails with a
\* "No image data found" error.
\* Fails for the secondary model, after whose image-less answer the primary
\* error is thrown.
C23_FirstInlineImage ==
  (GenSettledNow /\ LastAnswer.kind = "ok" /\ LastAnswer.resp.imageBase64 = "") =>
    IF ImageParts(LastAnswer.resp) # {}
    THEN gen.settled
           = Normal(DataUri(LastAnswer.resp.parts[FirstImagePart(LastAnswer.resp)].data))
    ELSE gen.settled.threw /\ gen.settled.err.message \in NoImageMessages

\* C24: for the Gateway, an answer with the top-level imageBase64 gives the
\* URI built from it, whatever its nested parts hold; an answer with only
\* nested parts gives the URI of the first part that has inlineData.data.
C24_GatewayPrefersTopLevel ==
  (props # <<>> /\ props.provider = "zenmux" /\ GenSettledNow /\ gen.primary.kind = "ok") =>
    LET data == gen.primary.resp
    IN IF data.imageBase64 # ""
       THEN gen.settled = Normal(DataUri(data.imageBase64))
       ELSE ImageParts(data) # {} =>
              gen.settled = Normal(DataUri(data.parts[FirstImagePart(data)].data))

\* both shapes in one answer, the nested image not in the first part
C24_Witness ==
  /\ props.provider = "zenmux"
  /\ gen.primary.kind = "ok"
  /\ gen.primary.resp = ImageResponse("CCCC", <<Part(FALSE, ""), Part(TRUE, "AAAA")>>)
  /\ gen.settled = Normal(DataUri("CCCC"))

---------------------------------------------------------------------------
(* Claims about the validation of the plan answer.                         *)

\* what JSON.parse gave for the answer: the content after fence cleaning
\* (Gateway), response.text (Managed SDK)
ParsedAnswer ==
  JSONparse(IF pIn.provider = "zenmux" THEN cleanMarkdown(pOutcome.text)
            ELSE pOutcome.text)

AnswerParsed ==
  /\ pPc = "resolved"
  /\ pOutcome.kind = "ok"
  /\ pOutcome.text # <<>>
  /\ ~ParsedAnswer.threw

\* C25: for both providers, an answer that parses as JSON but has no slides
\* array (field missing, null, or not an array) gives the fallback plan; no
\* returned plan has a slides field that is absent or not an array.
C25_NoSlidesArrayFallsBack ==
  /\ (AnswerParsed /\ Get(ParsedAnswer.val, K("slides")).t # "arr")
       => pSettled = Normal(TheFallback)
  /\ pPc = "resolved" => Get(pSettled.val, K("slides")).t = "arr"

\* Managed SDK, which has no explicit test: the answer had no slides field
C25_Witness ==
  /\ AnswerParsed
  /\ pIn.provider = "google"
  /\ ParsedAnswer.val.t = "obj"
  /\ Get(ParsedAnswer.val, K("slides")).t = "undefined"
  /\ pSettled = Normal(TheFallback)

\* C26: a generateSlidePlan call makes exactly one provider transport call;
\* after a failure it makes no second call and returns the fallback plan.
C26_OneTransportCall ==
  /\ pPc = "idle" => pCalls = 0
  /\ pPc \in {"await", "resolved", "rejected"} => pCalls = 1
  /\ (pPc = "resolved" /\ planTry(pIn, pOutcome).threw)
       => pSettled = Normal(TheFallback)

\* the one call was rejected and the fallback plan came back
C26_Witness ==
  /\ pPc = "resolved"
  /\ pCalls = 1
  /\ pOutcome.kind = "reject"
  /\ pSettled = Normal(TheFallback)

\* the texts of the plans the model may answer with, with no fence around them
PlanTexts == {stringify(d) : d \in ModelPlans}

\* the plan the text J gives when it is parsed as it stands
ParsedVerbatim(J) ==
  LET a == injectStyle(JSONparse(J).val, pIn.styleInput, pIn.requirementsInput)
  IN withSlides(a.val, resetSelectedImageIds(Get(a.val, K("slides"))))

\* C27: Gateway: content that is not wrapped in a fence is parsed verbatim:
\* content that is itself valid plan JSON, also when its string values hold
\* triple backticks, gives the model's plan and not the fallback plan.
C27_UnfencedParsedVerbatim ==
  (/\ pPc = "resolved"
   /\ pIn.provider = "zenmux"
   /\ pOutcome.kind = "ok"
   /\ pOutcome.text \in PlanTexts)
  => /\ pSettled = ParsedVerbatim(pOutcome.text)
     /\ pSettled # Normal(TheFallback)

---------------------------------------------------------------------------
(* Claims about the references of a slide and the end of a batch run.      *)

\* the data of the asset the id names; "" when no asset has the id or the
\* asset has no data
DataOfId(id) ==
  LET hits == {j \in 1..Len(props.images) : props.images[j].id = id.v}
  IN IF hits = {} THEN ""
     ELSE props.images[CHOOSE j \in hits : \A m \in hits : j <= m].dataUrl

\* the ids of slide k the editor left, and those of them that resolve
SelectedIds(k) == Get(planSlides(props.plan)[k], K("selectedImageIds")).v

MatchingIds(k) ==
  LET Resolves(id) == DataOfId(id) # ""
  IN SelectSeq(SelectedIds(k), Resolves)

\* C28: when the ids of a slide are resolved for rendering, an id with no
\* matching asset, or whose asset has no data, is skipped and the render call
\* is made all the same; the references passed to the generator are the data
\* of the matching assets in selectedImageIds order, none when no id matches.
C28_ReferencesInOrder ==
  (Mounted /\ gen.slide > 0) =>
    /\ Len(gen.refs) = Len(MatchingIds(gen.slide))
    /\ \A n \in 1..Len(gen.refs) : gen.refs[n] = DataOfId(MatchingIds(gen.slide)[n])
    /\ gen.primaryCalls = 1

\* the call for the slide whose ids name a missing asset, an asset without
\* data and two assets with data, the later upload first
C28_Witness ==
  /\ Mounted
  /\ gen.slide = 1
  /\ gen.pc = "primary"
  /\ Len(SelectedIds(1)) = 4
  /\ gen.refs = <<"data:image/png;base64,iVBO", "data:image/jpeg;base64,R0lG">>

\* the states of a batch run
Running == run.pc = "await"
Ended == run.pc \in {"completed", "aborted"}

\* a step of the run's state machine: a run starts, or the running one ends
RunStarts == run.pc # "await" /\ run'.pc = "await" /\ run'.n = run.n + 1
RunEnds == Running /\ run'.pc \in {"completed", "aborted"} /\ run'.n = run.n
RunStays == run'.pc = run.pc /\ run'.n = run.n

\* C29: every batch run that starts reaches Completed or Aborted, given that
\* every render call settles, and stays in the one it reached; the run makes
\* no other transition; on the mounted screen isGenerating is true while the
\* run is Running and false once it has ended.
C29_RunEnds ==
  /\ Running ~> Ended
  /\ [][RunStarts \/ RunEnds \/ RunStays]_vars
  /\ [](Mounted => (Running => isGenerating) /\ (Ended => ~isGenerating))

\* a run that rendered a slide, failed on one and went through to its end
C29_Witness ==
  /\ Mounted
  /\ run.pc = "completed"
  /\ ~isGenerating
  /\ \E j, k \in 1..Len(run.results) : run.results[j] # <<>> /\ run.errors[k] # <<>>

\* the value in the slot is the URI of image data a model sent
IsRenderedImage(uri) == uri # <<>> /\ uri # DataUri("undefined")

\* C30: when a batch run ends in Completed, every slide of the plan has a
\* rendered image in its result slot or an error log entry for its failed
\* attempt in that run.
C30_CompletedAccountsForEverySlide ==
  run.pc = "completed" =>
    \A k \in 1..Len(planSlides(props.plan)) :
      \/ /\ IsRenderedImage(run.results[k])
         /\ Mounted => generatedImages[k] = run.results[k]
      \/ /\ run.errors[k] # <<>>
         /\ SlideErrorLogged(k, run.errors[k])

---------------------------------------------------------------------------
(* Claims about the state the batch run shows and leaves.                  *)

SlideCount == Len(planSlides(props.plan))

\* C31: on the mounted screen progressIndex follows the loop: while the render
\* call for the slide at 0-based position i is in flight it is i+1; within
\* one run it never decreases and never exceeds the number of slides; it
\* goes back to 0 only in the step that starts a run.
C31_ProgressFollowsLoop ==
  /\ [](Mounted /\ GenInFlight => progressIndex = gen.slide /\ gen.slide = run.i + 1)
  /\ [](Mounted => progressIndex \in 0..SlideCount)
  /\ [][(Mounted' /\ run'.n = run.n) => progressIndex' >= progressIndex]_vars
  /\ [][(Mounted' /\ progressIndex' < progressIndex) => run'.n = run.n + 1]_vars

\* the call for the second slide is in flight in a run that found the first
\* slide rendered
C31_Witness ==
  /\ Mounted
  /\ GenInFlight
  /\ gen.slide = 2
  /\ progressIndex = 2
  /\ run.start[1] # <<>>
  /\ run.attempts[1] = 0

\* a step of a batch run: the run or the render call it awaits moves
RunStep == run' # run \/ gen' # gen

\* C32: a batch run only reads the plan and the image assets: no step of a
\* run changes them, so they are the same after the run, and a step writes
\* nothing of the session but the results, progressIndex, isGenerating,
\* hasApiKey and the log.
C32_RunOnlyReadsPlanAndImages ==
  [][RunStep => /\ props' = props
                /\ appPlan' = appPlan
                /\ step' = step
                /\ keyChecked' = keyChecked
                /\ UNCHANGED planVars
                /\ UNCHANGED <<orphans, sessions, exported, editor>>]_vars

\* a run that stored an image, then aborted and cleared hasApiKey
C32_Witness ==
  /\ Mounted
  /\ run.pc = "aborted"
  /\ ~hasApiKey
  /\ ~isGenerating
  /\ \E j \in 1..Len(generatedImages) : generatedImages[j] # <<>>
  /\ props.plan = appPlan
  /\ props.images = SessionImages

---------------------------------------------------------------------------
(* Claims about the secondary model of the Managed SDK.                    *)

\* the secondary model answered, and no part of its answer has inlineData
SecondaryGaveNoInlinePart ==
  /\ gen.secondaryCalls = 1
  /\ gen.secondary.kind = "ok"
  /\ \A j \in DOMAIN gen.secondary.resp.parts : ~gen.secondary.resp.parts[j].inline

\* C33: Managed SDK: when the primary call failed with a fallback-eligible
\* error and the answer of the secondary call has no inline image part,
\* generateFinalSlideImage rejects with the primary error: it does not
\* resolve with a value and raises no new "No image data" error.
C33_FallThroughRethrowsPrimary ==
  (GenSettledNow /\ SecondaryGaveNoInlinePart) =>
    /\ props.provider = "google"
    /\ HasFallbackMarker(errorMsgOf(gen.primaryErr))
    /\ gen.pc = "rejected"
    /\ gen.settled = Throw(gen.primaryErr)
    /\ gen.settled.err.message \notin NoImageMessages

\* primary "403", the secondary model answered with text only
C33_Witness ==
  /\ gen.pc = "rejected"
  /\ gen.primaryErr = Err("Error", M403)
  /\ gen.secondary.kind = "ok"
  /\ gen.secondary.resp.parts = <<Part(FALSE, "")>>
  /\ gen.settled = Throw(Err("Error", M403))

\* the secondary call is in flight after a primary error with "403" or
\* "permission", and in this step the render call resolves
SecondaryRescues ==
  /\ gen.pc = "secondary"
  /\ \/ includes(errorMsgOf(gen.primaryErr), <<"403">>)
     \/ includes(errorMsgOf(gen.primaryErr), <<"permission">>)
  /\ ~run'.settled[gen.slide].threw

\* C34: Managed SDK: when the primary call failed with a message holding
\* "403" or "permission" and the secondary call returns an image, the run
\* stores that image for the slide and goes on to the next slide without an
\* image, or ends when there is none; it is not aborted, no notice is raised
\* and hasApiKey is left as it is.
C34_RescuedSlideDoesNotAbort ==
  [][SecondaryRescues =>
       /\ run'.results[gen.slide] = run'.settled[gen.slide].val
       /\ run'.results[gen.slide] # <<>>
       /\ Mounted => generatedImages'[gen.slide] = run'.results[gen.slide]
       /\ run'.errors[gen.slide] = <<>>
       /\ run'.pc \in {"await", "completed"}
       /\ run'.pc = "await" =>
            /\ gen'.pc = "primary"
            /\ gen'.slide = nextUnrendered(run'.results, gen.slide + 1)
       /\ run'.pc = "completed" => nextUnrendered(run'.results, gen.slide + 1) = 0
       /\ ~run'.permissionErrorOccurred
       /\ run'.notices = run.notices
       /\ alerts' = alerts
       /\ hasApiKey' = hasApiKey]_vars

\* after a primary "403" on slide 1 the secondary model's image is in slot 1
\* and the call for slide 2 is in flight, the key still in place
C34_Witness ==
  /\ Mounted
  /\ run.pc = "await"
  /\ gen.slide = 2
  /\ run.settled[1] = Normal(DataUri("BBBB"))
  /\ generatedImages[1] = DataUri("BBBB")
  /\ \E n \in 1..Len(logs) :
       logs[n].type = "error" /\ includes(logs[n].message, <<"Primary model failed:", SP>>)
  /\ hasApiKey
  /\ alerts = <<>>

---------------------------------------------------------------------------
(* Claims about a run and the restart of the session.                      *)

\* the slides the run found without an image, up to position last, have
\* each been attempted once
AttemptedUpTo(last) ==
  \A k \in 1..last : run.start[k] = <<>> => run.attempts[k] = 1

\* C35: only a quota or permission error stops a batch run between two
\* slides.  When the session is restarted while a run is Running, the
\* restart leaves the run, its call in flight and the plan, images and
\* credential it holds untouched, and the run goes on to its end: a run
\* leaves Running only by attempting every slide it found without an image
\* (Completed) or on an error with an abort marker (Aborted).
C35_RestartDoesNotStopRun ==
  /\ (~Mounted /\ Running) ~> (~Mounted /\ Ended)
  /\ [][(Running /\ Mounted /\ ~Mounted') =>
          /\ Running'
          /\ run' = run
          /\ gen' = gen
          /\ props' = props]_vars
  /\ [](run.pc = "completed" => AttemptedUpTo(Len(run.start)))
  /\ [](run.pc = "aborted" =>
          /\ HasAbortMarker(run.errors[run.i + 1])
          /\ AttemptedUpTo(run.i + 1))
  /\ [](GenInFlight =>
          gen.refs = resolveImages(planSlides(props.plan)[gen.slide], props.images))

\* the App has cleared its plan and left the preview screen, and the run it
\* left behind has a call in flight for a later slide, with the plan it holds
C35_Witness ==
  /\ ~Mounted
  /\ appPlan = JNull
  /\ Running
  /\ GenInFlight
  /\ gen.slide >= 2
  /\ props.plan # JNull
  /\ run.attempts[1] = 1

---------------------------------------------------------------------------
(* Claims about the result slots of a preview session.                     *)

\* C36: within one preview session a result slot that holds an image is
\* never cleared or replaced; the images rendered before a failing or
\* aborting slide are in generatedImages after the run has ended; and the
\* results array is as long as plan.slides.
C36_ResultSlotsKept ==
  /\ [](Mounted => Len(generatedImages) = Len(planSlides(props.plan)))
  /\ [][(Mounted /\ Mounted') =>
          \A k \in DOMAIN generatedImages :
            generatedImages[k] # <<>> =>
              k \in DOMAIN generatedImages' /\ generatedImages'[k] = generatedImages[k]]_vars
  /\ [](Mounted /\ Ended =>
          \A k \in DOMAIN run.settled :
            ~run.settled[k].threw => generatedImages[k] = run.settled[k].val)

---------------------------------------------------------------------------
(* Claims about file drops in the editor.                                  *)

\* the file drop j completes in this step
DropCompletes(j) == editor.drops[j].pc = "await" /\ editor'.drops[j].pc = "done"

\* p is the plan q with nothing changed but the ids added to slide k (1-based)
SamePlanButIdsOf(p, q, k) ==
  /\ p.t = "obj"
  /\ DOMAIN p.v = DOMAIN q.v
  /\ \A key \in DOMAIN q.v : key # K("slides") => p.v[key] = q.v[key]
  /\ Len(planSlides(p)) = Len(planSlides(q))
  /\ \A m \in DOMAIN planSlides(q) : m # k => planSlides(p)[m] = planSlides(q)[m]
  /\ \A key \in DOMAIN planSlides(q)[k].v :
       key # K("selectedImageIds") => Get(planSlides(p)[k], key) = planSlides(q)[k].v[key]
  /\ \E ids \in AddedIds :
       currentIds(planSlides(p)[k]) = currentIds(planSlides(q)[k]) \o ids

\* C37: in the editor, a drop of image files on a slide writes back a plan
\* built from the plan captured when the drop began: when the drop completes
\* the App's plan is the captured plan with the new ids added to that slide,
\* so every edit of title, bullets, style or images made while the upload
\* was pending is overwritten.
C37_DropWritesBackCapturedPlan ==
  [][\A j \in DOMAIN editor.drops :
       DropCompletes(j) =>
         SamePlanButIdsOf(appPlan', editor.drops[j].plan, editor.drops[j].index + 1)]_vars

\* one file drop on the generated plan and one other edit: the plan is the
\* generated one with the new image, the other edit has left no trace
C37_Witness ==
  /\ EditorShown
  /\ sessions = 1
  /\ editor.edits = 2
  /\ Len(editor.drops) = 1
  /\ editor.drops[1].pc = "done"
  /\ editor.drops[1].plan = pSettled.val
  /\ appPlan = dropFiles(pSettled.val, editor.drops[1].index, <<Str(<<"new1">>)>>)

---------------------------------------------------------------------------
(* Claims about the steps of the App.                                      *)

\* C38: the step of the App changes only from UPLOAD to PROCESSING, from
\* PROCESSING to EDITOR with the plan set, or back to UPLOAD with the
\* processing alert, from EDITOR to PREVIEW, and from PREVIEW to UPLOAD with
\* the plan cleared; the step is EDITOR or PREVIEW only while there is a
\* plan; GENERATING_VISUALS is never entered.
C38_StepOrder ==
  /\ [][step' # step =>
          \/ step = "UPLOAD" /\ step' = "PROCESSING"
          \/ step = "PROCESSING" /\ step' = "EDITOR" /\ appPlan' # JNull
          \/ /\ step = "PROCESSING" /\ step' = "UPLOAD"
             /\ alerts' = Append(alerts, "errorProcessing")
          \/ step = "EDITOR" /\ step' = "PREVIEW"
          \/ step = "PREVIEW" /\ step' = "UPLOAD" /\ appPlan' = JNull]_vars
  /\ [](step \in {"EDITOR", "PREVIEW"} => appPlan # JNull /\ appPlan.t = "obj")
  /\ [](step # "GENERATING_VISUALS")

\* one whole round: a plan was generated, edited, previewed, and the
\* restart has cleared it
C38_Witness ==
  /\ step = "UPLOAD"
  /\ sessions = 1
  /\ pPc = "resolved"
  /\ appPlan = JNull
  /\ props # <<>>

=============================================================================
